---- MODULE Spec2Model ----
(***************************************************************************)
(* Smart-Canteen: the order lifecycle and meal-window admission control.   *)
(*                                                                         *)
(* The document store holds the orders collection; every page keeps its    *)
(* own local copy of the query result (React state filled by onSnapshot)   *)
(* and every handler decides on that local copy before it writes to the    *)
(* store with addDoc / updateDoc (last write wins).                        *)
(***************************************************************************)
EXTENDS Integers, Sequences, FiniteSets, TLC

VARIABLES
    orders,   \* the store's orders collection: document i is orders[i]
    snap,     \* snap[s][p]: the `orders` React state of page p in session s
    clock,    \* the store's serverTimestamp() source
    writer,   \* writer[i]: the session that issued the last write of document i
    lastOp,   \* the last handler invocation: its arguments, what it saw, what it did
    calc,     \* a render-time computation: its function, its input, its progress
    users,    \* the store's users collection: document i is users[i]
    flow,     \* the sign-up of one new account: the positions and locals of its async functions
    prevStatuses,  \* prevStatuses[s]: the ref prevStatuses.current of the employee page of s
    lastSnap  \* the last orders snapshot callback of an employee page: what it saw and raised

vars == <<orders, snap, clock, writer, lastOp, calc, users, flow, prevStatuses, lastSnap>>

----------------------------------------------------------------------------
(* Bounds of the model *)

MaxOrders == 2
MaxClock == 3
MaxApply == 5       \* how often getNextMealWindow is applied in a row
MaxDuration == 3    \* the longest simulated rush, in minutes
MaxSlaOrders == 2   \* the longest order list handed to computeSlaStats
MaxMenu == 3        \* the longest menu handed to recommendedItems
MaxHistory == 2     \* the longest order history handed to recommendedItems
MaxEvaluations == 2 \* how often recommendedItems is evaluated on one input
MaxQueueOrders == 3 \* the longest order list handed to computeQueueEstimate
MaxAiOrders == 2    \* the longest order list handed to computeAiInsights
MaxPerSample == 2   \* how many orders of one kind the forecast's order list holds
MaxSteps == 5       \* how many clicks one order's lifecycle walk takes
MaxToggles == 2     \* how often the vendor toggles one item's availability
MaxLoads == 2       \* how often the auth-state callback runs for the new account

----------------------------------------------------------------------------
(* Values *)

Statuses == {"Prebooked", "Preparing", "Ready", "Completed", "Cancelled"}
PaymentStatuses == {"Pending", "Paid", "Refunded"}
Windows == {"Breakfast", "Lunch", "Snacks", "Dinner"}
none == "none"

Hours == 0 .. 23
Dates == {"2024-01-10", "2024-01-11"}

\* The status values the vendor pages pass to updateStatus at their call sites.
VendorTargets == {"Preparing", "Ready", "Completed"}

----------------------------------------------------------------------------
(* JavaScript values of a menu item's `available` field.  A string is kept   *)
(* as its sequence of characters so that trim() and toLowerCase() compute.   *)

JBool(b) == [t |-> "boolean", b |-> b, s |-> <<>>, n |-> 0]
JStr(s) == [t |-> "string", b |-> FALSE, s |-> s, n |-> 0]
JNum(n) == [t |-> "number", b |-> FALSE, s |-> <<>>, n |-> n]
JUndefined == [t |-> "undefined", b |-> FALSE, s |-> <<>>, n |-> 0]

UpperChars == <<"A", "B", "E", "I", "L", "N", "O", "R", "S", "T", "U", "V", "Y">>
LowerChars == <<"a", "b", "e", "i", "l", "n", "o", "r", "s", "t", "u", "v", "y">>

toLowerChar(c) ==
    IF \E i \in 1 .. Len(UpperChars) : UpperChars[i] = c
    THEN LowerChars[CHOOSE i \in 1 .. Len(UpperChars) : UpperChars[i] = c]
    ELSE c

toLowerCase(s) == [i \in 1 .. Len(s) |-> toLowerChar(s[i])]

isWhite(c) == c \in {" ", "\t", "\n"}

RECURSIVE trimStart(_)
trimStart(s) ==
    IF s # <<>> /\ isWhite(Head(s)) THEN trimStart(Tail(s)) ELSE s

RECURSIVE trimEnd(_)
trimEnd(s) ==
    IF s # <<>> /\ isWhite(s[Len(s)]) THEN trimEnd(SubSeq(s, 1, Len(s) - 1)) ELSE s

trim(s) == trimEnd(trimStart(s))

\* !!v for a value that is not a string
truthy(v) ==
    CASE v.t = "boolean" -> v.b
      [] v.t = "number" -> v.n # 0
      [] v.t = "string" -> v.s # <<>>
      [] OTHER -> FALSE

\* availability that would lower-case the text without trimming it
isAvailableUntrimmed(item) ==
    LET v == item.available IN
    IF v.t = "string"
    THEN LET s == toLowerCase(v.s) IN
         \/ s = <<"y", "e", "s">>
         \/ s = <<"y">>
         \/ s = <<"t", "r", "u", "e">>
         \/ s = <<"a", "v", "a", "i", "l", "a", "b", "l", "e">>
    ELSE truthy(v)

\* availability as a strict `available === true`
isStrictlyTrue(item) == item.available = JBool(TRUE)

isItemAvailable(item) ==
    LET v == item.available IN
    IF v.t = "string"
    THEN LET s == toLowerCase(trim(v.s)) IN
         \/ s = <<"y", "e", "s">>
         \/ s = <<"y">>
         \/ s = <<"t", "r", "u", "e">>
         \/ s = <<"a", "v", "a", "i", "l", "a", "b", "l", "e">>
    ELSE truthy(v)

----------------------------------------------------------------------------
(* Meal windows: the three boundary tables of the source.  Each function is *)
(* a chain of `if (test) return label`; the tests are kept apart from the chain. *)

\* a boundary table whose Lunch would start inside Breakfast
overlappingTest(w, hour) ==
    CASE w = "Breakfast" -> hour >= 7 /\ hour <= 11
      [] w = "Lunch" -> hour >= 11 /\ hour <= 15
      [] w = "Snacks" -> hour >= 16 /\ hour <= 18
      [] w = "Dinner" -> hour >= 19 /\ hour <= 23
      [] OTHER -> FALSE

\* unnamed/part_002 (the employee page that has handleBook)
windowTest(w, hour) ==
    CASE w = "Breakfast" -> hour >= 7 /\ hour <= 11
      [] w = "Lunch" -> hour >= 12 /\ hour <= 15
      [] w = "Snacks" -> hour >= 16 /\ hour <= 18
      [] w = "Dinner" -> hour >= 19 /\ hour <= 23
      [] OTHER -> FALSE

getCurrentMealWindow(hour) ==
    IF windowTest("Breakfast", hour) THEN "Breakfast"
    ELSE IF windowTest("Lunch", hour) THEN "Lunch"
    ELSE IF windowTest("Snacks", hour) THEN "Snacks"
    ELSE IF windowTest("Dinner", hour) THEN "Dinner"
    ELSE none

\* src/pages/EmployeePage.js
EmployeePage_windowTest(w, hour) ==
    CASE w = "Breakfast" -> hour >= 7 /\ hour < 11
      [] w = "Lunch" -> hour >= 12 /\ hour < 15
      [] w = "Snacks" -> hour >= 16 /\ hour < 18
      [] w = "Dinner" -> hour >= 19 /\ hour < 22
      [] OTHER -> FALSE

EmployeePage_getCurrentMealWindow(hour) ==
    IF EmployeePage_windowTest("Breakfast", hour) THEN "Breakfast"
    ELSE IF EmployeePage_windowTest("Lunch", hour) THEN "Lunch"
    ELSE IF EmployeePage_windowTest("Snacks", hour) THEN "Snacks"
    ELSE IF EmployeePage_windowTest("Dinner", hour) THEN "Dinner"
    ELSE none

\* src/pages/AdminPage.js (the label of the returned meta object)
AdminPage_windowTest(w, hour) ==
    CASE w = "Breakfast" -> hour >= 7 /\ hour < 12
      [] w = "Lunch" -> hour >= 12 /\ hour < 16
      [] w = "Snacks" -> hour >= 16 /\ hour < 19
      [] w = "Dinner" -> hour >= 19 /\ hour < 23
      [] OTHER -> FALSE

getCurrentMealWindowMeta(hour) ==
    IF AdminPage_windowTest("Breakfast", hour) THEN "Breakfast"
    ELSE IF AdminPage_windowTest("Lunch", hour) THEN "Lunch"
    ELSE IF AdminPage_windowTest("Snacks", hour) THEN "Snacks"
    ELSE IF AdminPage_windowTest("Dinner", hour) THEN "Dinner"
    ELSE none

\* a successor that would stop at Dinner instead of wrapping to Breakfast
nextWindowSameDay(window) ==
    IF window = none THEN none
    ELSE IF window = "Breakfast" THEN "Lunch"
    ELSE IF window = "Lunch" THEN "Snacks"
    ELSE IF window = "Snacks" THEN "Dinner"
    ELSE none

getNextMealWindow(window) ==
    IF window = none THEN none
    ELSE IF window = "Breakfast" THEN "Lunch"
    ELSE IF window = "Lunch" THEN "Snacks"
    ELSE IF window = "Snacks" THEN "Dinner"
    ELSE IF window = "Dinner" THEN "Breakfast"
    ELSE none

----------------------------------------------------------------------------
(* The order state machine's guards *)

canCancelOrder(order) == order.status = "Prebooked"

canTransition(currentStatus, newStatus) ==
    CASE currentStatus = "Prebooked" ->
            newStatus = "Preparing" \/ newStatus = "Ready" \/ newStatus = "Completed"
      [] currentStatus = "Preparing" ->
            newStatus = "Ready" \/ newStatus = "Completed"
      [] currentStatus = "Ready" -> newStatus = "Completed"
      [] OTHER -> FALSE

----------------------------------------------------------------------------
(* Sessions: the signed-in principal and its profile (AuthContext), and the  *)
(* route guard of App.js                                                     *)

Sessions == {"e1", "e2", "v1", "v2", "a1"}
Pages == {"EmployeePage", "VendorPage", "VendorOrdersPage", "AdminPage"}

Profile(s) ==
    CASE s = "e1" -> [role |-> "employee", employeeId |-> "EMP001",
                      email |-> "e1@corp.example", uid |-> "uid-e1", emailVerified |-> TRUE]
      [] s = "e2" -> [role |-> "employee", employeeId |-> "",
                      email |-> "e2@corp.example", uid |-> "uid-e2", emailVerified |-> TRUE]
      [] s = "v1" -> [role |-> "vendor", employeeId |-> "",
                      email |-> "v1@corp.example", uid |-> "uid-v1", emailVerified |-> FALSE]
      [] s = "v2" -> [role |-> "vendor", employeeId |-> "",
                      email |-> "v2@corp.example", uid |-> "uid-v2", emailVerified |-> FALSE]
      [] s = "e3" -> [role |-> "employee", employeeId |-> "",
                      email |-> "", uid |-> "uid-e3", emailVerified |-> TRUE]
      [] s = "u0" -> [role |-> "employee", employeeId |-> "",
                      email |-> "", uid |-> "", emailVerified |-> TRUE]
      [] OTHER    -> [role |-> "admin", employeeId |-> "",
                      email |-> "a1@corp.example", uid |-> "uid-a1", emailVerified |-> FALSE]

\* The accounts the booking handlers are tried with: those of Sessions, an
\* account with neither employeeId nor e-mail (e3), and one from which no id
\* at all can be read (u0), the case the final `|| ""` of derivedUserId and
\* the handlers' `if (!userId)` are written for.
BookingSessions == Sessions \cup {"e3", "u0"}

\* a resolution that would prefer the account e-mail to the employee id
emailFirst(s) ==
    IF Profile(s).email # "" THEN Profile(s).email
    ELSE IF Profile(s).employeeId # "" THEN Profile(s).employeeId
    ELSE Profile(s).uid

\* profile?.employeeId || user?.email || user?.uid || ""
derivedUserId(s) ==
    IF Profile(s).employeeId # "" THEN Profile(s).employeeId
    ELSE IF Profile(s).email # "" THEN Profile(s).email
    ELSE IF Profile(s).uid # "" THEN Profile(s).uid
    ELSE ""

\* The <Route> table of App: the roles each page is wrapped with.
allowedRoles(page) ==
    CASE page = "EmployeePage" -> {"employee"}
      [] page = "VendorPage" -> {"vendor"}
      [] page = "VendorOrdersPage" -> {"vendor"}
      [] OTHER -> {"admin"}

\* a route guard that would check only the e-mail verification
verifiedOnly(s, roles) ==
    Profile(s).role \in {"admin", "vendor"} \/ Profile(s).emailVerified

\* ProtectedRoute renders its children (the page) for a signed-in session.
ProtectedRoute(s, roles) ==
    /\ (Profile(s).role \in {"admin", "vendor"} \/ Profile(s).emailVerified)
    /\ Profile(s).role \in roles

Routed(s, page) == ProtectedRoute(s, allowedRoles(page))

----------------------------------------------------------------------------
(* Menu items offered to the booking handlers *)

MenuItem(id, name, price, category, available) ==
    [id |-> id, name |-> name, price |-> price, category |-> category,
     available |-> available]

MenuItems ==
    { MenuItem("b1", "Idli", 30, "Breakfast", JBool(TRUE)),
      MenuItem("b0", "Dosa", 40, "Breakfast", JBool(FALSE)),
      MenuItem("l1", "Thali", 80, "Lunch", JBool(TRUE)),
      MenuItem("l0", "Biryani", 120, "Lunch", JBool(FALSE)),
      MenuItem("l2", "Curd Rice", 50, "Lunch", JStr(<<"Y", "e", "s", " ">>)),
      MenuItem("l3", "Pulao", 70, "Lunch", JStr(<<"n", "o">>)),
      MenuItem("s1", "Samosa", 15, "Snacks", JBool(TRUE)),
      MenuItem("s0", "Vada", 20, "Snacks", JUndefined),
      MenuItem("d1", "Roti", 60, "Dinner", JBool(TRUE)),
      MenuItem("d0", "Soup", 45, "Dinner", JNum(0)),
      MenuItem("o1", "Water", 0, "", JBool(TRUE)) }

ItemById(id) == CHOOSE it \in MenuItems : it.id = id

\* The inputs the lifecycle specification books with; the admission
\* specification books with every hour and every menu item.
SampleHours == {10, 13}
SampleItems == {it \in MenuItems : it.id = "l1"}

\* Lunch items over the representations of `available` found in menu documents
AvailabilitySamples ==
    { MenuItem("aYes", "Item Yes", 10, "Lunch", JStr(<<"Y", "e", "s">>)),
      MenuItem("aYesSp", "Item yes+space", 10, "Lunch", JStr(<<"y", "e", "s", " ">>)),
      MenuItem("aY", "Item Y", 10, "Lunch", JStr(<<"Y">>)),
      MenuItem("aTrue", "Item true", 10, "Lunch", JBool(TRUE)),
      MenuItem("aAvail", "Item available", 10, "Lunch",
               JStr(<<"a", "v", "a", "i", "l", "a", "b", "l", "e">>)),
      MenuItem("aEmpty", "Item empty", 10, "Lunch", JStr(<<>>)),
      MenuItem("aNo", "Item no", 10, "Lunch", JStr(<<"n", "o">>)),
      MenuItem("aFalse", "Item false", 10, "Lunch", JBool(FALSE)),
      MenuItem("aUndef", "Item undefined", 10, "Lunch", JUndefined),
      MenuItem("aZero", "Item 0", 10, "Lunch", JNum(0)),
      MenuItem("aLater", "Item Later", 10, "Lunch", JStr(<<"L", "a", "t", "e", "r">>)) }

\* every item the booking specification books with
BookingItems == MenuItems \cup AvailabilitySamples

BookingItemById(id) == CHOOSE it \in BookingItems : it.id = id

----------------------------------------------------------------------------
(* The document store *)

serverTimestamp == clock + 1

addDoc(coll, data) == Append(coll, data)

\* a write that would replace the document (setDoc without merge): the
\* fields not given are lost
setDoc(d, fields) ==
    [k \in DOMAIN d |->
        IF k \in DOMAIN fields THEN fields[k]
        ELSE IF k \in {"price", "createdAt", "updatedAt"} THEN 0 ELSE ""]

\* updateDoc merges the given fields into the document and keeps the rest.
updateDoc(d, fields) ==
    [k \in DOMAIN d |-> IF k \in DOMAIN fields THEN fields[k] ELSE d[k]]

\* { id: d.id, ...d.data() }
WithId(i) == [id |-> i] @@ orders[i]

RECURSIVE QueryDocs(_, _)
\* the documents i .. Len(orders) whose index is in `matching`, in document order
QueryDocs(i, matching) ==
    IF i > Len(orders) THEN <<>>
    ELSE IF i \in matching THEN <<WithId(i)>> \o QueryDocs(i + 1, matching)
    ELSE QueryDocs(i + 1, matching)

\* the comparator (a, b) => at - bt (oldest first) or bt - at (newest first)
byCreatedAt(a, b, newestFirst) ==
    IF newestFirst THEN b.createdAt - a.createdAt ELSE a.createdAt - b.createdAt

RECURSIVE insertSorted(_, _, _)
\* x placed behind every element that does not sort after it (a stable sort)
insertSorted(x, sorted, newestFirst) ==
    IF sorted = <<>> THEN <<x>>
    ELSE IF byCreatedAt(Head(sorted), x, newestFirst) <= 0
         THEN <<Head(sorted)>> \o insertSorted(x, Tail(sorted), newestFirst)
         ELSE <<x>> \o sorted

RECURSIVE sortOrders(_, _)
\* arr.sort(comparator)
sortOrders(arr, newestFirst) ==
    IF arr = <<>> THEN <<>>
    ELSE insertSorted(arr[Len(arr)],
                      sortOrders(SubSeq(arr, 1, Len(arr) - 1), newestFirst),
                      newestFirst)

----------------------------------------------------------------------------
(* The record kept of a handler invocation *)

NoOp ==
    [op |-> "none", sess |-> "-", page |-> "-", id |-> 0,
     seenStatus |-> "-", seenPay |-> "-",      \* the order as the handler's argument shows it
     prevStatus |-> "-", prevPay |-> "-",      \* the stored order when the handler ran
     prevBy |-> "-",                           \* the session whose write the store held
     prevUpdatedAt |-> 0,                      \* the stored updatedAt when the handler ran
     to |-> "-",                               \* the status asked for
     offered |-> TRUE,                         \* the page renders an enabled control for it
     outcome |-> "-",                          \* denied | written | failed | thrown
     msg |-> "-", channel |-> "-",             \* what the user is told, and how
     hour |-> 0, window |-> "-",               \* the wall-clock hour and its meal window
     item |-> "-", date |-> "-"]

\* a handler of page `page` called with the order `order` of its local state
OnOrder(op, s, page, order, to, offered) ==
    [NoOp EXCEPT !.op = op, !.sess = s, !.page = page, !.id = order.id,
                 !.seenStatus = order.status, !.seenPay = order.paymentStatus,
                 !.prevStatus = orders[order.id].status,
                 !.prevPay = orders[order.id].paymentStatus,
                 !.prevBy = writer[order.id],
                 !.prevUpdatedAt = orders[order.id].updatedAt,
                 !.to = to, !.offered = offered]

\* a booking handler called with a menu item at a wall-clock hour
OnItem(op, s, item, hour, window, offered) ==
    [NoOp EXCEPT !.op = op, !.sess = s, !.page = "EmployeePage",
                 !.item = item.id, !.hour = hour, !.window = window,
                 !.offered = offered]

Denied(base, msg, channel) ==
    [base EXCEPT !.outcome = "denied", !.msg = msg, !.channel = channel]

Written(base, msg, channel) ==
    [base EXCEPT !.outcome = "written", !.msg = msg, !.channel = channel]

Failed(base, msg, channel) ==
    [base EXCEPT !.outcome = "failed", !.msg = msg, !.channel = channel]

\* no computation is followed
NoCalc == [fn |-> "none"]

\* no sign-up under way
NoFlow == [page |-> "none"]

\* an id -> status map without entries, and no snapshot callback so far
EmptyMap == [i \in {} |-> ""]
NoSnap == [modified |-> {}, raised |-> <<>>]

----------------------------------------------------------------------------
(* Initial state: an empty orders collection, no page has received a snapshot *)

Init ==
    /\ orders = <<>>
    /\ snap = [s \in Sessions |-> [p \in Pages |-> <<>>]]
    /\ clock = 0
    /\ writer = <<>>
    /\ lastOp = NoOp
    /\ calc = NoCalc
    /\ users = <<>>
    /\ flow = NoFlow
    /\ prevStatuses = [s \in Sessions |-> EmptyMap]
    /\ lastSnap = NoSnap

----------------------------------------------------------------------------
(* onSnapshot listeners: the page's local orders become the query's result *)

setOrders(s, page, arr) ==
    /\ snap' = [snap EXCEPT ![s][page] = arr]
    /\ UNCHANGED <<orders, clock, writer, lastOp, calc, users, flow>>

\* where("userId", "==", userId), newest first
EmployeePage_orders(s) ==
    LET matching == {i \in 1 .. Len(orders) : orders[i].userId = derivedUserId(s)}
    IN sortOrders(QueryDocs(1, matching), TRUE)

\* the ids of a list of documents, and the document of an id
docIds(docs) == {docs[i].id : i \in 1 .. Len(docs)}
docOf(docs, id) == docs[CHOOSE i \in 1 .. Len(docs) : docs[i].id = id]

\* snap.docChanges(): a document that was not in the previous snapshot is
\* "added", one that was there with other contents is "modified"
addedDocs(before, after) == docIds(after) \ docIds(before)
modifiedDocs(before, after) ==
    {id \in docIds(before) \cap docIds(after) : docOf(before, id) # docOf(after, id)}

\* prevStatuses.current[change.doc.id]; "" stands for undefined
prevStatusOf(map, id) == IF id \in DOMAIN map THEN map[id] ELSE ""

\* a cancel that would be announced like any other change
announceAll(prev, status) == FALSE

\* !(prev === "Prebooked" && data.status === "Cancelled") is the test of the
\* notification; this is its negation
isOwnCancel(prev, status) == prev = "Prebooked" /\ status = "Cancelled"

\* if (prev && prev !== data.status) { if (!(...)) setNotif(...) }
notifies(prev, status) ==
    prev # "" /\ prev # status /\ ~isOwnCancel(prev, status)

\* the setNotif calls of docChanges().forEach over the changed documents
\* `ids`, in document order; those of `added` have change.type "added"
RECURSIVE statusNotifs(_, _, _, _)
statusNotifs(ids, added, map, docs) ==
    IF ids = {} THEN <<>>
    ELSE LET id == CHOOSE i \in ids : \A j \in ids : i <= j
             data == docOf(docs, id)
             rest == statusNotifs(ids \ {id}, added, map, docs)
         IN IF id \notin added /\ notifies(prevStatusOf(map, id), data.status)
            THEN <<[id |-> id, status |-> data.status]>> \o rest
            ELSE rest

\* newMap[o.id] = o.status for every order of the snapshot
newMap(arr) == [id \in docIds(arr) |-> docOf(arr, id).status]

\* the onSnapshot callback of the employee page
EmployeePage_ordersListener(s) ==
    /\ Routed(s, "EmployeePage")
    /\ derivedUserId(s) # ""
    /\ LET arr == EmployeePage_orders(s)
           modified == modifiedDocs(snap[s]["EmployeePage"], arr)
           added == addedDocs(snap[s]["EmployeePage"], arr)
           change(id) == [id |-> id, prev |-> prevStatusOf(prevStatuses[s], id),
                          status |-> docOf(arr, id).status]
       IN /\ lastSnap' = [modified |-> {change(id) : id \in modified},
                          raised |-> statusNotifs(added \cup modified, added,
                                                  prevStatuses[s], arr)]
          /\ prevStatuses' = [prevStatuses EXCEPT ![s] = newMap(arr)]
          /\ setOrders(s, "EmployeePage", arr)

\* where("date", "==", todayString()), oldest first; the query is built once, on mount
VendorOrdersPage_orders(today) ==
    LET matching == {i \in 1 .. Len(orders) : orders[i].date = today}
    IN sortOrders(QueryDocs(1, matching), FALSE)

VendorOrdersPage_ordersListener(s, today) ==
    /\ Routed(s, "VendorOrdersPage")
    /\ setOrders(s, "VendorOrdersPage", VendorOrdersPage_orders(today))
    /\ UNCHANGED <<prevStatuses, lastSnap>>

\* orderBy("createdAt", "desc"): every order, sorted by the store
VendorPage_orders == sortOrders(QueryDocs(1, 1 .. Len(orders)), TRUE)

VendorPage_ordersListener(s) ==
    /\ Routed(s, "VendorPage")
    /\ setOrders(s, "VendorPage", VendorPage_orders)
    /\ UNCHANGED <<prevStatuses, lastSnap>>

\* the whole collection, in document order
AdminPage_ordersListener(s) ==
    /\ Routed(s, "AdminPage")
    /\ setOrders(s, "AdminPage", QueryDocs(1, 1 .. Len(orders)))
    /\ UNCHANGED <<prevStatuses, lastSnap>>

----------------------------------------------------------------------------
(* Booking handlers of the employee page *)

\* the document both booking handlers pass to addDoc
newOrder(item, userId, status, date) ==
    [itemId |-> item.id,
     name |-> IF item.name = "" THEN "item" ELSE item.name,
     price |-> item.price,
     userId |-> userId,
     status |-> status,
     paymentStatus |-> "Pending",
     date |-> date,
     createdAt |-> serverTimestamp,
     updatedAt |-> serverTimestamp]

\* the tail of both booking handlers: try { await addDoc(...) } catch { setNotif(...) }
createOrder(base, doc, storeOk, okMsg, failMsg) ==
    IF storeOk
    THEN /\ orders' = addDoc(orders, doc)
         /\ clock' = clock + 1
         /\ writer' = Append(writer, base.sess)
         /\ lastOp' = Written([base EXCEPT !.id = Len(orders) + 1, !.date = doc.date],
                              okMsg, "notif")
         /\ UNCHANGED <<snap, calc, users, flow, prevStatuses, lastSnap>>
    ELSE /\ lastOp' = Failed([base EXCEPT !.date = doc.date], failMsg, "notif")
         /\ UNCHANGED <<orders, clock, writer, snap, calc, users, flow, prevStatuses, lastSnap>>

\* a refusal that would give the same message whatever the cause
denyWithoutCause(base, msg, channel) ==
    /\ lastOp' = Denied(base, "Not allowed right now.", channel)
    /\ UNCHANGED <<orders, clock, writer, snap, calc, users, flow, prevStatuses, lastSnap>>

deny(base, msg, channel) ==
    /\ lastOp' = Denied(base, msg, channel)
    /\ UNCHANGED <<orders, clock, writer, snap, calc, users, flow, prevStatuses, lastSnap>>

\* unnamed/part_002: the menu card's button is enabled for an available item
\* that is bookable or pre-bookable now, and calls handleBook when bookable
isBookable(item, hour) ==
    LET win == getCurrentMealWindow(hour)
        cat == IF item.category = "" THEN "Other" ELSE item.category
    IN IF win = none THEN FALSE ELSE cat = win

isPrebookable(item, hour) ==
    LET win == getCurrentMealWindow(hour)
        nextWin == getNextMealWindow(win)
        cat == IF item.category = "" THEN "Other" ELSE item.category
    IN IF win = none \/ nextWin = none THEN FALSE ELSE cat = nextWin

\* src/pages/EmployeePage.js: the menu card's button is enabled for an
\* available item of the active window
isItemInActiveWindow(item, hour) ==
    LET win == EmployeePage_getCurrentMealWindow(hour)
        cat == IF item.category = "" THEN "Other" ELSE item.category
    IN IF win = none THEN FALSE ELSE cat = win

\* unnamed/part_002: book for immediate preparation
handleBook(s, item, hour, date, storeOk) ==
    /\ Routed(s, "EmployeePage")
    /\ Len(orders) < MaxOrders /\ clock < MaxClock
    /\ LET userId == derivedUserId(s)
           nowWindow == getCurrentMealWindow(hour)
           itemCategory == IF item.category = "" THEN "Other" ELSE item.category
           base == OnItem("handleBook", s, item, hour, nowWindow,
                          userId # "" /\ isItemAvailable(item) /\ isBookable(item, hour))
       IN IF userId = "" THEN deny(base, "No Employee ID linked to this account.", "notif")
          ELSE IF nowWindow = none
          THEN deny(base, "Booking is only available during meal windows.", "notif")
          ELSE IF itemCategory # nowWindow
          THEN deny(base, "can be booked only during its window", "notif")
          ELSE IF ~isItemAvailable(item)
          THEN deny(base, "is not available right now.", "notif")
          ELSE createOrder(base, newOrder(item, userId, "Preparing", date), storeOk,
                           "Booked successfully.", "Failed to book. Check console.")

\* unnamed/part_002: pre-book for the next meal window
handlePrebook(s, item, hour, date, storeOk) ==
    /\ Routed(s, "EmployeePage")
    /\ Len(orders) < MaxOrders /\ clock < MaxClock
    /\ LET userId == derivedUserId(s)
           nowWindow == getCurrentMealWindow(hour)
           itemCategory == IF item.category = "" THEN "Other" ELSE item.category
           intendedPrebookWindow == getNextMealWindow(nowWindow)
           base == OnItem("handlePrebook", s, item, hour, nowWindow,
                          /\ userId # "" /\ isItemAvailable(item)
                          /\ ~isBookable(item, hour) /\ isPrebookable(item, hour))
       IN IF userId = "" THEN deny(base, "No Employee ID linked to this account.", "notif")
          ELSE IF nowWindow = none
          THEN deny(base, "Pre-booking is only available during meal windows.", "notif")
          ELSE IF itemCategory # intendedPrebookWindow
          THEN deny(base, "can be pre-booked only for its window", "notif")
          ELSE IF ~isItemAvailable(item)
          THEN deny(base, "is not available right now.", "notif")
          ELSE createOrder(base, newOrder(item, userId, "Prebooked", date), storeOk,
                           "Pre-booked successfully.", "Failed to pre-book. Check console.")

\* src/pages/EmployeePage.js: the page App.js routes /employee to
EmployeePage_handlePrebook(s, item, hour, date, storeOk) ==
    /\ Routed(s, "EmployeePage")
    /\ Len(orders) < MaxOrders /\ clock < MaxClock
    /\ LET userId == derivedUserId(s)
           nowWindow == EmployeePage_getCurrentMealWindow(hour)
           itemCategory == IF item.category = "" THEN "Other" ELSE item.category
           base == OnItem("EmployeePage_handlePrebook", s, item, hour, nowWindow,
                          /\ userId # "" /\ isItemAvailable(item)
                          /\ isItemInActiveWindow(item, hour))
       IN IF userId = "" THEN deny(base, "No Employee ID linked to this account.", "notif")
          ELSE IF nowWindow = none
          THEN deny(base, "Pre-booking is only available during meal windows.", "notif")
          ELSE IF itemCategory # nowWindow
          THEN deny(base, "can be pre-booked only during its window", "notif")
          ELSE IF ~isItemAvailable(item)
          THEN deny(base, "is not available right now.", "notif")
          ELSE createOrder(base, newOrder(item, userId, "Prebooked", date), storeOk,
                           "Pre-booked successfully.", "Failed to pre-book. Check console.")

----------------------------------------------------------------------------
(* Handlers on an existing order *)

\* try { await updateDoc(ref, fields) ... } catch { report }
writeOrder(base, fields, storeOk, okMsg, failMsg, channel) ==
    IF storeOk
    THEN /\ clock < MaxClock
         /\ orders' = [orders EXCEPT ![base.id] = updateDoc(@, fields)]
         /\ clock' = clock + 1
         /\ writer' = [writer EXCEPT ![base.id] = base.sess]
         /\ lastOp' = Written(base, okMsg, IF okMsg = "-" THEN "-" ELSE channel)
         /\ UNCHANGED <<snap, calc, users, flow, prevStatuses, lastSnap>>
    ELSE /\ lastOp' = Failed(base, failMsg, channel)
         /\ UNCHANGED <<orders, clock, writer, snap, calc, users, flow, prevStatuses, lastSnap>>

\* a cancel that would leave paymentStatus as it was
keepPaymentStatus(order) == order.paymentStatus

\* a cancel that would refund nothing: a paid order stays Paid
withoutRefund(order) ==
    IF order.paymentStatus = "Paid" THEN "Paid" ELSE "Pending"

\* order.paymentStatus === "Paid" ? "Refunded" : "Pending"
newPaymentStatus(order) ==
    IF order.paymentStatus = "Paid" THEN "Refunded" ELSE "Pending"

\* the employee page's Cancel button
handleCancelOrder(s, k, storeOk) ==
    /\ Routed(s, "EmployeePage")
    /\ k \in 1 .. Len(snap[s]["EmployeePage"])
    /\ LET order == snap[s]["EmployeePage"][k]
           base == OnOrder("handleCancelOrder", s, "EmployeePage", order, "Cancelled",
                           canCancelOrder(order))
       IN IF ~canCancelOrder(order)
          THEN deny(base, "can no longer be cancelled", "notif")
          ELSE writeOrder(base,
                          [status |-> "Cancelled", paymentStatus |-> newPaymentStatus(order),
                           updatedAt |-> serverTimestamp],
                          storeOk, "Cancelled.", "Failed to cancel order. Check console.",
                          "notif")

\* the employee page's Pay Online button
handlePayOnline(s, k, storeOk) ==
    /\ Routed(s, "EmployeePage")
    /\ k \in 1 .. Len(snap[s]["EmployeePage"])
    /\ LET order == snap[s]["EmployeePage"][k]
           base == OnOrder("handlePayOnline", s, "EmployeePage", order, "-",
                           order.paymentStatus # "Paid")
       IN IF order.paymentStatus = "Paid"
          THEN deny(base, "is already paid.", "notif")
          ELSE IF order.status = "Cancelled"
          THEN deny(base, "Cancelled order cannot be paid.", "notif")
          ELSE writeOrder(base,
                          [paymentStatus |-> "Paid", updatedAt |-> serverTimestamp],
                          storeOk, "Payment successful (demo).",
                          "Failed to update payment status. Check console.", "notif")

\* a guard that would read the stored document instead of the local copy
storedStatus(order) == orders[order.id].status

\* the status updateStatus hands to canTransition: that of its argument `order`,
\* an element of the page's local orders
currentStatus(order) == order.status

\* /vendor/orders: Prep / Ready / Done.  The write is awaited outside any try block.
VendorOrdersPage_updateStatus(s, k, newStatus, storeOk) ==
    /\ Routed(s, "VendorOrdersPage")
    /\ k \in 1 .. Len(snap[s]["VendorOrdersPage"])
    /\ LET order == snap[s]["VendorOrdersPage"][k]
           base == OnOrder("VendorOrdersPage_updateStatus", s, "VendorOrdersPage", order,
                           newStatus, canTransition(order.status, newStatus))
       IN IF ~canTransition(currentStatus(order), newStatus)
          THEN deny(base, "Blocked invalid transition on /vendor/orders", "console")
          ELSE IF storeOk
          THEN writeOrder(base, [status |-> newStatus], TRUE, "-", "-", "-")
          ELSE /\ lastOp' = [base EXCEPT !.outcome = "thrown"]
               /\ UNCHANGED <<orders, clock, writer, snap, calc, users, flow, prevStatuses, lastSnap>>

\* /vendor: the cards of activeOrders carry Mark Preparing / Ready / Completed
isActiveOrder(order) == order.status # "Completed" /\ order.status # "Cancelled"

\* /vendor: updateStatus(orderId, newStatus)
VendorPage_updateStatus(s, k, newStatus, storeOk) ==
    /\ Routed(s, "VendorPage")
    /\ k \in 1 .. Len(snap[s]["VendorPage"])
    /\ LET order == snap[s]["VendorPage"][k]
           base == OnOrder("VendorPage_updateStatus", s, "VendorPage", order, newStatus,
                           isActiveOrder(order))
       IN writeOrder(base, [status |-> newStatus, updatedAt |-> serverTimestamp],
                     storeOk, "-", "Failed to update order status. Check console.", "alert")

\* /vendor: Mark Paid (Cash)
markPaidCash(s, k, storeOk) ==
    /\ Routed(s, "VendorPage")
    /\ k \in 1 .. Len(snap[s]["VendorPage"])
    /\ LET order == snap[s]["VendorPage"][k]
           base == OnOrder("markPaidCash", s, "VendorPage", order, "-",
                           /\ isActiveOrder(order)
                           /\ order.paymentStatus # "Paid"
                           /\ order.status # "Cancelled")
       IN IF order.paymentStatus = "Paid"
          THEN deny(base, "Already marked as paid.", "alert")
          ELSE writeOrder(base,
                          [paymentStatus |-> "Paid", updatedAt |-> serverTimestamp],
                          storeOk, "-", "Failed to update payment status. Check console.",
                          "alert")

----------------------------------------------------------------------------
(* Specifications *)

\* the date /vendor/orders was opened on
MountDate == "2024-01-10"

\* The sessions of the lifecycle specification: both employees, one vendor
\* session, the admin.
OneVendor == Sessions \ {"v2"}

\* The order lifecycle: orders are booked from a sample of the menu on the day
\* /vendor/orders was opened, then every session acts on them.  The store
\* accepts every write.
Next ==
    \/ \E s \in OneVendor, item \in SampleItems, hour \in SampleHours :
            handleBook(s, item, hour, MountDate, TRUE)
    \/ \E s \in OneVendor, item \in SampleItems, hour \in SampleHours :
            handlePrebook(s, item, hour, MountDate, TRUE)
    \/ \E s \in OneVendor, item \in SampleItems, hour \in SampleHours :
            EmployeePage_handlePrebook(s, item, hour, MountDate, TRUE)
    \/ \E s \in OneVendor : EmployeePage_ordersListener(s)
    \/ \E s \in OneVendor : VendorOrdersPage_ordersListener(s, MountDate)
    \/ \E s \in OneVendor : VendorPage_ordersListener(s)
    \/ \E s \in OneVendor, k \in 1 .. MaxOrders : handleCancelOrder(s, k, TRUE)
    \/ \E s \in OneVendor, k \in 1 .. MaxOrders : handlePayOnline(s, k, TRUE)
    \/ \E s \in OneVendor, k \in 1 .. MaxOrders, t \in VendorTargets :
            VendorOrdersPage_updateStatus(s, k, t, TRUE)
    \/ \E s \in OneVendor, k \in 1 .. MaxOrders, t \in VendorTargets :
            VendorPage_updateStatus(s, k, t, TRUE)
    \/ \E s \in OneVendor, k \in 1 .. MaxOrders : markPaidCash(s, k, TRUE)

Spec == Init /\ [][Next]_vars

\* The sessions of the two-vendor specification.
TwoVendors == {"e1", "v1", "v2"}

\* Two vendor sessions work on the orders an employee pre-books: each has
\* /vendor/orders and /vendor open and receives its snapshots on its own.
NextTwoVendors ==
    \/ \E s \in TwoVendors, item \in SampleItems, hour \in SampleHours :
            handlePrebook(s, item, hour, MountDate, TRUE)
    \/ \E s \in TwoVendors : VendorOrdersPage_ordersListener(s, MountDate)
    \/ \E s \in TwoVendors : VendorPage_ordersListener(s)
    \/ \E s \in TwoVendors, k \in 1 .. MaxOrders, t \in VendorTargets :
            VendorOrdersPage_updateStatus(s, k, t, TRUE)
    \/ \E s \in TwoVendors, k \in 1 .. MaxOrders, t \in VendorTargets :
            VendorPage_updateStatus(s, k, t, TRUE)

SpecTwoVendors == Init /\ [][NextTwoVendors]_vars

\* The sessions of the store-failure specification.
OneEach == {"e1", "v1"}

\* The lifecycle of one employee and one vendor session against a store that
\* accepts or rejects each write (the awaited addDoc / updateDoc resolves or
\* rejects).
NextStoreFailure ==
    \/ \E s \in OneEach, item \in SampleItems, hour \in SampleHours, ok \in BOOLEAN :
            handleBook(s, item, hour, MountDate, ok)
    \/ \E s \in OneEach, item \in SampleItems, hour \in SampleHours, ok \in BOOLEAN :
            handlePrebook(s, item, hour, MountDate, ok)
    \/ \E s \in OneEach, item \in SampleItems, hour \in SampleHours, ok \in BOOLEAN :
            EmployeePage_handlePrebook(s, item, hour, MountDate, ok)
    \/ \E s \in OneEach : EmployeePage_ordersListener(s)
    \/ \E s \in OneEach : VendorOrdersPage_ordersListener(s, MountDate)
    \/ \E s \in OneEach : VendorPage_ordersListener(s)
    \/ \E s \in OneEach, k \in 1 .. MaxOrders, ok \in BOOLEAN :
            handleCancelOrder(s, k, ok)
    \/ \E s \in OneEach, k \in 1 .. MaxOrders, ok \in BOOLEAN :
            handlePayOnline(s, k, ok)
    \/ \E s \in OneEach, k \in 1 .. MaxOrders, t \in VendorTargets, ok \in BOOLEAN :
            VendorOrdersPage_updateStatus(s, k, t, ok)
    \/ \E s \in OneEach, k \in 1 .. MaxOrders, t \in VendorTargets, ok \in BOOLEAN :
            VendorPage_updateStatus(s, k, t, ok)
    \/ \E s \in OneEach, k \in 1 .. MaxOrders, ok \in BOOLEAN :
            markPaidCash(s, k, ok)

SpecStoreFailure == Init /\ [][NextStoreFailure]_vars

\* the result the page's query has now
pageOrders(s, page) ==
    CASE page = "EmployeePage" -> EmployeePage_orders(s)
      [] page = "VendorOrdersPage" -> VendorOrdersPage_orders(MountDate)
      [] page = "VendorPage" -> VendorPage_orders
      [] OTHER -> QueryDocs(1, 1 .. Len(orders))

\* page `page` of session s shows the store as it is, and the handler that
\* runs now is called from a control the page renders enabled
UpToDate(s, page) == snap[s][page] = pageOrders(s, page) /\ lastOp'.offered

\* The lifecycle with no stale page and no call the pages do not offer: every
\* handler runs from an enabled control of a page that has received the
\* latest snapshot.
NextUpToDate ==
    \/ \E s \in OneVendor, item \in SampleItems, hour \in SampleHours :
            handleBook(s, item, hour, MountDate, TRUE) /\ lastOp'.offered
    \/ \E s \in OneVendor, item \in SampleItems, hour \in SampleHours :
            handlePrebook(s, item, hour, MountDate, TRUE) /\ lastOp'.offered
    \/ \E s \in OneVendor, item \in SampleItems, hour \in SampleHours :
            EmployeePage_handlePrebook(s, item, hour, MountDate, TRUE) /\ lastOp'.offered
    \/ \E s \in OneVendor : EmployeePage_ordersListener(s)
    \/ \E s \in OneVendor : VendorOrdersPage_ordersListener(s, MountDate)
    \/ \E s \in OneVendor : VendorPage_ordersListener(s)
    \/ \E s \in OneVendor : AdminPage_ordersListener(s)
    \/ \E s \in OneVendor, k \in 1 .. MaxOrders :
            handleCancelOrder(s, k, TRUE) /\ UpToDate(s, "EmployeePage")
    \/ \E s \in OneVendor, k \in 1 .. MaxOrders :
            handlePayOnline(s, k, TRUE) /\ UpToDate(s, "EmployeePage")
    \/ \E s \in OneVendor, k \in 1 .. MaxOrders, t \in VendorTargets :
            VendorOrdersPage_updateStatus(s, k, t, TRUE) /\ UpToDate(s, "VendorOrdersPage")
    \/ \E s \in OneVendor, k \in 1 .. MaxOrders, t \in VendorTargets :
            VendorPage_updateStatus(s, k, t, TRUE) /\ UpToDate(s, "VendorPage")
    \/ \E s \in OneVendor, k \in 1 .. MaxOrders :
            markPaidCash(s, k, TRUE) /\ UpToDate(s, "VendorPage")

SpecUpToDate == Init /\ [][NextUpToDate]_vars

\* /admin renders the badge of the current meal window
AdminPage_mealWindowBadge(s, hour) ==
    /\ Routed(s, "AdminPage")
    /\ lastOp' = [NoOp EXCEPT !.op = "AdminPage_mealWindowBadge", !.sess = s,
                              !.page = "AdminPage", !.hour = hour,
                              !.window = getCurrentMealWindowMeta(hour)]
    /\ UNCHANGED <<orders, clock, writer, snap, calc, users, flow, prevStatuses, lastSnap>>

\* Admission control: on a fresh store, a session books any menu item at any
\* hour of any day (the store accepts the write), or /admin shows its badge.
NextAdmission ==
    /\ lastOp = NoOp
    /\ \/ \E s \in Sessions, item \in MenuItems, hour \in Hours, date \in Dates :
                handleBook(s, item, hour, date, TRUE)
       \/ \E s \in Sessions, item \in MenuItems, hour \in Hours, date \in Dates :
                handlePrebook(s, item, hour, date, TRUE)
       \/ \E s \in Sessions, item \in MenuItems, hour \in Hours, date \in Dates :
                EmployeePage_handlePrebook(s, item, hour, date, TRUE)
       \/ \E s \in Sessions, hour \in Hours : AdminPage_mealWindowBadge(s, hour)

SpecAdmission == Init /\ [][NextAdmission]_vars

\* Booking with every account and every representation of `available`: on a
\* fresh store, an account books any item at any hour; the store accepts
\* the write.
NextBooking ==
    /\ lastOp = NoOp
    /\ \/ \E s \in BookingSessions, item \in BookingItems, hour \in Hours :
                handleBook(s, item, hour, MountDate, TRUE)
       \/ \E s \in BookingSessions, item \in BookingItems, hour \in Hours :
                handlePrebook(s, item, hour, MountDate, TRUE)
       \/ \E s \in BookingSessions, item \in BookingItems, hour \in Hours :
                EmployeePage_handlePrebook(s, item, hour, MountDate, TRUE)

SpecBooking == Init /\ [][NextBooking]_vars

----------------------------------------------------------------------------
(* Render-time computations: each starts from an input drawn in the initial  *)
(* state and is then carried out by the steps below, with the store empty.   *)

\* getNextMealWindow applied to a window, and to its own result again
NextMealWindowInputs ==
    {[fn |-> "getNextMealWindow", in |-> w, out |-> w, n |-> 0] : w \in Windows \cup {none}}

applyNextMealWindow ==
    /\ calc.fn = "getNextMealWindow"
    /\ calc.n < MaxApply
    /\ calc' = [calc EXCEPT !.out = getNextMealWindow(@), !.n = @ + 1]
    /\ UNCHANGED <<orders, snap, clock, writer, lastOp, users, flow, prevStatuses, lastSnap>>

\* Math.round of the non-negative rational num / den
Round(num, den) == (2 * num + den) \div (2 * den)

\* runQueueSimulation: the queue is a multiple of 1 / avgPrepMinutes; the
\* model keeps queue * avgPrepMinutes (queueP), and likewise the total and
\* the maximum.
SimulationInputs ==
    {[fn |-> "runQueueSimulation",
      durationMinutes |-> d, newOrdersPerMin |-> n, stations |-> st, avgPrepMinutes |-> p,
      t |-> 0, queueP |-> 0, totalQueueP |-> 0, maxQueueP |-> 0,
      returned |-> FALSE, maxQueue |-> 0, avgQueue10 |-> 0] :
        d \in 1 .. MaxDuration, n \in {0, 1, 5}, st \in {0, 2, 3}, p \in {5, 6}}

\* Math.max(0, Math.round(newOrdersPerMin + noise)) over every draw of
\* Math.random() in [0, 1): noise = (random - 0.5) * newOrdersPerMin * 0.3
\* lies in [-0.15 n, 0.15 n)
IncomingDraws(n) ==
    {i \in 0 .. 2 * n : 100 * i - 50 < 115 * n /\ 100 * i + 50 > 85 * n}

\* one pass of the for loop: queue = Math.max(0, queue + incoming - capacityPerMin)
simulateMinute ==
    /\ calc.fn = "runQueueSimulation"
    /\ calc.t < calc.durationMinutes
    /\ \E incoming \in IncomingDraws(calc.newOrdersPerMin) :
        LET raw == calc.queueP + incoming * calc.avgPrepMinutes - calc.stations
            queueP == IF raw > 0 THEN raw ELSE 0
        IN calc' = [calc EXCEPT !.t = @ + 1,
                                !.queueP = queueP,
                                !.totalQueueP = @ + queueP,
                                !.maxQueueP = IF queueP > @ THEN queueP ELSE @]
    /\ UNCHANGED <<orders, snap, clock, writer, lastOp, users, flow, prevStatuses, lastSnap>>

\* the returned object: maxQueue = Math.round(maxQueue),
\* avgQueue = Math.round(avgQueue * 10) / 10 (kept as avgQueue * 10)
simulationReturn ==
    /\ calc.fn = "runQueueSimulation"
    /\ calc.t = calc.durationMinutes
    /\ ~calc.returned
    /\ calc' = [calc EXCEPT
                  !.returned = TRUE,
                  !.maxQueue = Round(calc.maxQueueP, calc.avgPrepMinutes),
                  !.avgQueue10 = Round(10 * calc.totalQueueP,
                                       calc.avgPrepMinutes * calc.durationMinutes)]
    /\ UNCHANGED <<orders, snap, clock, writer, lastOp, users, flow, prevStatuses, lastSnap>>

\* computeSlaStats.  A Date is its time value in minutes since 00:00 UTC of
\* day 0, and a date string "YYYY-MM-DD" is the number of its day.  The
\* browser's time zone is an input: getDate and setDate work on local time,
\* toISOString on UTC.
SLA_MINUTES == 15
WINDOW_DAYS == 7

\* Daylight saving time is in force from dstFrom until dstUntil (UTC minutes).
Zones ==
    { [name |-> "Asia/Kolkata",  std |-> 330,  dst |-> 330, dstFrom |-> 0, dstUntil |-> 0],
      [name |-> "Europe/Berlin autumn", std |-> 60, dst |-> 120,
       dstFrom |-> 0, dstUntil |-> 8 * 1440 + 60],
      [name |-> "Europe/Berlin spring", std |-> 60, dst |-> 120,
       dstFrom |-> 8 * 1440 + 60, dstUntil |-> 40 * 1440],
      [name |-> "America/New_York autumn", std |-> 0 - 300, dst |-> 0 - 240,
       dstFrom |-> 0, dstUntil |-> 8 * 1440 + 360] }

offset(zone, utc) ==
    IF zone.dstFrom <= utc /\ utc < zone.dstUntil THEN zone.dst ELSE zone.std

\* the time value of a local wall-clock time: the earlier instant when the
\* wall time occurs twice, the offset before the change when it is skipped
LocalToUTC(zone, wall) ==
    LET c == {u \in {wall - zone.std, wall - zone.dst} : u + offset(zone, u) = wall}
    IN IF c # {} THEN CHOOSE u \in c : \A v \in c : u <= v
       ELSE wall - zone.std

\* d.setDate(d.getDate() - i): the same local wall time, i local days earlier
setDateBack(zone, d, i) == LocalToUTC(zone, d + offset(zone, d) - i * 1440)

\* d.toISOString().split("T")[0]
toISODate(d) == d \div 1440

\* new Date(todayString()) is 00:00 UTC of the day
parseDate(day) == day * 1440

\* createdAt and updatedAt in milliseconds; -1 is a timestamp that is not set
SlaOrder(date, status, createdAt, updatedAt) ==
    [date |-> date, status |-> status, createdAt |-> createdAt, updatedAt |-> updatedAt]

SlaSamples ==
    { SlaOrder(8, "Completed", 36000000, 36000000 + 12 * 60000),
      SlaOrder(8, "Ready", 36000000, 36000000 + 15 * 60000),
      SlaOrder(10, "Completed", 36000000, 36000000 + 15 * 60000 + 1),
      SlaOrder(10, "Completed", 36000000, 36000000),
      SlaOrder(10, "Completed", 36000000, 36000000 + 240 * 60000),
      SlaOrder(10, "Ready", 36000000, 36000000 + 240 * 60000 - 1),
      SlaOrder(10, "Preparing", 36000000, 36000000 + 12 * 60000),
      SlaOrder(10, "Completed", 36000000, 0 - 1),
      SlaOrder(4, "Completed", 36000000, 36000000 + 12 * 60000) }

SlaOrderLists ==
    UNION {[1 .. n -> SlaSamples] : n \in 0 .. MaxSlaOrders}

SlaInputs ==
    {[fn |-> "computeSlaStats", zone |-> z, today |-> t, orders |-> os,
      step |-> "start", i |-> WINDOW_DAYS - 1, k |-> 1,
      dayList |-> <<>>, perDayMap |-> <<>>,
      totalCompleted |-> 0, totalMs |-> 0, totalOnTime |-> 0,
      slaOnTimePercent |-> 0, perDay |-> <<>>] :
        z \in Zones, t \in {10, 11}, os \in SlaOrderLists}

EmptyBucket(key) == [date |-> key, completed |-> 0, totalMs |-> 0, onTimeCount |-> 0]

\* if (!orders.length) return { totalCompleted: 0, ..., perDay: [] }
slaNoOrders ==
    /\ calc.fn = "computeSlaStats"
    /\ calc.step = "start"
    /\ calc' = [calc EXCEPT !.step = IF Len(calc.orders) = 0 THEN "returned" ELSE "days"]
    /\ UNCHANGED <<orders, snap, clock, writer, lastOp, users, flow, prevStatuses, lastSnap>>

\* one pass of the loop that builds perDayMap and dayList
slaAddDay ==
    /\ calc.fn = "computeSlaStats"
    /\ calc.step = "days"
    /\ LET d == setDateBack(calc.zone, parseDate(calc.today), calc.i)
           key == toISODate(d)
       IN calc' = [calc EXCEPT
                     !.perDayMap = (key :> EmptyBucket(key)) @@ @,
                     !.dayList = Append(@, key),
                     !.i = @ - 1,
                     !.step = IF calc.i = 0 THEN "orders" ELSE "days"]
    /\ UNCHANGED <<orders, snap, clock, writer, lastOp, users, flow, prevStatuses, lastSnap>>

SlaCounts(o, perDayMap) ==
    /\ o.status \in {"Ready", "Completed"}
    /\ o.date \in DOMAIN perDayMap
    /\ o.createdAt >= 0 /\ o.updatedAt >= 0
    /\ o.updatedAt - o.createdAt > 0
    /\ o.updatedAt - o.createdAt < 240 * 60000

\* one callback of orders.forEach
slaCountOrder ==
    /\ calc.fn = "computeSlaStats"
    /\ calc.step = "orders"
    /\ calc.k <= Len(calc.orders)
    /\ LET o == calc.orders[calc.k]
           diffMs == o.updatedAt - o.createdAt
       IN calc' = [calc EXCEPT
                     !.k = @ + 1,
                     !.perDayMap =
                        IF SlaCounts(o, calc.perDayMap)
                        THEN [@ EXCEPT ![o.date] =
                                [@ EXCEPT !.completed = @ + 1,
                                          !.totalMs = @ + diffMs,
                                          !.onTimeCount =
                                              IF diffMs <= SLA_MINUTES * 60000
                                              THEN @ + 1 ELSE @]]
                        ELSE @]
    /\ UNCHANGED <<orders, snap, clock, writer, lastOp, users, flow, prevStatuses, lastSnap>>

RECURSIVE SumOver(_, _, _)
SumOver(dayList, perDayMap, field) ==
    IF dayList = <<>> THEN 0
    ELSE perDayMap[Head(dayList)][field] + SumOver(Tail(dayList), perDayMap, field)

\* dayList.map and the returned object; an average is kept as its total
slaReturn ==
    /\ calc.fn = "computeSlaStats"
    /\ calc.step = "orders"
    /\ calc.k > Len(calc.orders)
    /\ LET m == calc.perDayMap
           totalCompleted == SumOver(calc.dayList, m, "completed")
           totalOnTime == SumOver(calc.dayList, m, "onTimeCount")
       IN calc' = [calc EXCEPT
             !.step = "returned",
             !.perDay = [j \in 1 .. Len(calc.dayList) |->
                            LET b == m[calc.dayList[j]]
                            IN [date |-> b.date, completed |-> b.completed,
                                totalMs |-> b.totalMs,
                                onTimePercent |->
                                    IF b.completed = 0 THEN 0
                                    ELSE Round(b.onTimeCount * 100, b.completed)]],
             !.totalCompleted = totalCompleted,
             !.totalMs = SumOver(calc.dayList, m, "totalMs"),
             !.totalOnTime = totalOnTime,
             !.slaOnTimePercent =
                 IF totalCompleted = 0 THEN 0
                 ELSE Round(totalOnTime * 100, totalCompleted)]
    /\ UNCHANGED <<orders, snap, clock, writer, lastOp, users, flow, prevStatuses, lastSnap>>

\* recommendedItems.  A score userCount + 1 / (1 + price) is kept as the
\* fraction (userCount * (1 + price) + 1) / (1 + price), and two scores are
\* compared by cross-multiplication.
RecItems ==
    { MenuItem("l1", "Thali", 80, "Lunch", JBool(TRUE)),
      MenuItem("l2", "Curd Rice", 50, "Lunch", JStr(<<"Y", "e", "s", " ">>)),
      MenuItem("l4", "Lemon Rice", 50, "Lunch", JBool(TRUE)),
      MenuItem("l0", "Biryani", 120, "Lunch", JBool(FALSE)),
      MenuItem("b1", "Idli", 30, "Breakfast", JBool(TRUE)) }

RecMenus ==
    UNION {{m \in [1 .. n -> RecItems] : \A i, j \in 1 .. n : m[i] = m[j] => i = j} :
                n \in 0 .. MaxMenu}

RecHistories ==
    UNION {[1 .. n -> {[name |-> "Thali"], [name |-> "Lemon Rice"]}] :
                n \in 0 .. MaxHistory}

\* unnamed/part_002 offers the four category tabs, src/pages/EmployeePage.js
\* also "All"
RecInputs ==
    {[fn |-> "recommendedItems", page |-> pg, menuItems |-> m, orders |-> os,
      effectiveFilter |-> f, n |-> 0, out |-> <<>>, first |-> <<>>] :
        pg \in {"unnamed/part_002", "src/pages/EmployeePage.js"},
        m \in RecMenus, os \in RecHistories, f \in {"Breakfast", "Lunch"}}
    \cup
    {[fn |-> "recommendedItems", page |-> "src/pages/EmployeePage.js", menuItems |-> m,
      orders |-> os, effectiveFilter |-> "All", n |-> 0, out |-> <<>>, first |-> <<>>] :
        m \in RecMenus, os \in RecHistories}

\* countsByName[name] || 0 after orders.forEach
countsByName(os, name) ==
    IF name = "" THEN 0
    ELSE Cardinality({k \in 1 .. Len(os) : os[k].name = name})

\* (a, b) => (a.price || 0) - (b.price || 0)
byPrice(a, b, os) == a.price - b.price

\* a ranking that would leave the price bonus out of the score
byCount(a, b, os) == countsByName(os, b.name) - countsByName(os, a.name)

\* (a, b) => b.score - a.score, as the sign of the difference
byScore(a, b, os) ==
    (countsByName(os, b.name) * (1 + b.price) + 1) * (1 + a.price)
        - (countsByName(os, a.name) * (1 + a.price) + 1) * (1 + b.price)

compare(by, a, b, os) == IF by = "price" THEN byPrice(a, b, os) ELSE byScore(a, b, os)

\* Array.prototype.sort is stable: x goes behind every element that does
\* not compare greater than it
RECURSIVE insertBy(_, _, _, _)
insertBy(sorted, x, by, os) ==
    IF sorted = <<>> THEN <<x>>
    ELSE IF compare(by, Head(sorted), x, os) <= 0
    THEN <<Head(sorted)>> \o insertBy(Tail(sorted), x, by, os)
    ELSE <<x>> \o sorted

RECURSIVE sortBy(_, _, _)
sortBy(arr, by, os) ==
    IF arr = <<>> THEN <<>>
    ELSE insertBy(sortBy(SubSeq(arr, 1, Len(arr) - 1), by, os), arr[Len(arr)], by, os)

\* slice(0, 2)
slice2(arr) == SubSeq(arr, 1, IF Len(arr) < 2 THEN Len(arr) ELSE 2)

\* the part both pages share: cheapest first without orders, else by score
topTwo(availableMenu, os) ==
    IF availableMenu = <<>> THEN <<>>
    ELSE IF os = <<>> THEN slice2(sortBy(availableMenu, "price", os))
    ELSE slice2(sortBy(availableMenu, "score", os))

inCategory(item, effectiveFilter) ==
    (IF item.category = "" THEN "Other" ELSE item.category) = effectiveFilter

\* unnamed/part_002
recommendedItems(menuItems, os, effectiveFilter) ==
    topTwo(SelectSeq(menuItems,
                     LAMBDA item : isItemAvailable(item) /\ inCategory(item, effectiveFilter)),
           os)

\* src/pages/EmployeePage.js: the category filter is skipped for "All"
EmployeePage_recommendedItems(menuItems, os, effectiveFilter) ==
    topTwo(SelectSeq(menuItems,
                     LAMBDA item : /\ isItemAvailable(item)
                                   /\ effectiveFilter # "All" => inCategory(item, effectiveFilter)),
           os)

\* one render of the page evaluates recommendedItems
renderRecommended ==
    /\ calc.fn = "recommendedItems"
    /\ calc.n < MaxEvaluations
    /\ LET out == IF calc.page = "unnamed/part_002"
                  THEN recommendedItems(calc.menuItems, calc.orders, calc.effectiveFilter)
                  ELSE EmployeePage_recommendedItems(calc.menuItems, calc.orders,
                                                     calc.effectiveFilter)
       IN calc' = [calc EXCEPT !.n = @ + 1,
                               !.out = out,
                               !.first = IF calc.n = 0 THEN out ELSE @]
    /\ UNCHANGED <<orders, snap, clock, writer, lastOp, users, flow, prevStatuses, lastSnap>>

\* computeQueueEstimate (unnamed/part_002, the same in src/pages/EmployeePage.js)
DEFAULT_PREP_MIN == 8
PARALLEL_STATIONS == 2

\* an estimate that would also count cancelled orders
ACTIVE_OR_CANCELLED == {"Prebooked", "Preparing", "Ready", "Cancelled"}

ACTIVE_STATUSES == {"Prebooked", "Preparing", "Ready"}

QueueInputs ==
    {[fn |-> "computeQueueEstimate", orders |-> os, evaluated |-> FALSE,
      isNull |-> FALSE, activeCount |-> 0, estMinutes |-> 0] :
        os \in UNION {[1 .. n -> [status : Statuses]] : n \in 0 .. MaxQueueOrders}}

\* returns null without orders or without active orders, else
\* { activeCount, estMinutes: Math.max(1, Math.round(active.length * 8 / 2)) }
computeQueueEstimate ==
    /\ calc.fn = "computeQueueEstimate"
    /\ ~calc.evaluated
    /\ LET active == SelectSeq(calc.orders, LAMBDA o : o.status \in ACTIVE_STATUSES)
           rounded == Round(Len(active) * DEFAULT_PREP_MIN, PARALLEL_STATIONS)
       IN calc' = IF Len(calc.orders) = 0 \/ Len(active) = 0
                  THEN [calc EXCEPT !.evaluated = TRUE, !.isNull = TRUE]
                  ELSE [calc EXCEPT !.evaluated = TRUE,
                                    !.activeCount = Len(active),
                                    !.estMinutes = IF rounded < 1 THEN 1 ELSE rounded]
    /\ UNCHANGED <<orders, snap, clock, writer, lastOp, users, flow, prevStatuses, lastSnap>>

\* computeAiInsights.  Dates and timestamps as for computeSlaStats; an order
\* without a date field has date -1.
BASELINE_PREP_MINUTES == 12
WASTE_PER_ORDER_CENTIKG == 25     \* WASTE_PER_ORDER_KG = 0.25, in 1/100 kg

\* daysAgoString(days) at the time `now`: local days back, read in UTC
daysAgoString(zone, now, days) == toISODate(setDateBack(zone, now, days))

AiSamples ==
    { SlaOrder(10, "Completed", 36000000, 36000000 + 8 * 60000),
      SlaOrder(10, "Ready", 36000000, 36000000 + 11 * 60000 + 30000),
      SlaOrder(10, "Completed", 36000000, 36000000 + 180 * 60000),
      SlaOrder(10, "Completed", 36000000, 36000000),
      SlaOrder(10, "Cancelled", 36000000, 36000000 + 60000),
      SlaOrder(10, "Preparing", 36000000, 36000000),
      SlaOrder(4, "Completed", 36000000, 36000000 + 10 * 60000),
      SlaOrder(3, "Cancelled", 36000000, 36000000 + 60000),
      SlaOrder(2, "Cancelled", 36000000, 36000000 + 60000),
      SlaOrder(0 - 1, "Cancelled", 36000000, 36000000 + 60000) }

\* the admin page is open at 10:00 UTC of day 10
AiInputs ==
    {[fn |-> "computeAiInsights", zone |-> z, now |-> 10 * 1440 + 600, orders |-> os,
      evaluated |-> FALSE, consideredOrders |-> 0, completedCount |-> 0, totalMs |-> 0,
      timeSavedMinutes |-> 0, wasteAvoidedCentiKg |-> 0, cancelledCount |-> 0] :
        z \in {zz \in Zones : zz.name \in {"Asia/Kolkata", "Europe/Berlin autumn"}},
        os \in UNION {[1 .. n -> AiSamples] : n \in 0 .. MaxAiOrders}}

RECURSIVE SumDurations(_)
SumDurations(os) ==
    IF os = <<>> THEN 0
    ELSE (Head(os).updatedAt - Head(os).createdAt) + SumDurations(Tail(os))

\* an average is kept as its total and its count
computeAiInsights ==
    /\ calc.fn = "computeAiInsights"
    /\ ~calc.evaluated
    /\ LET cutoff == daysAgoString(calc.zone, calc.now, 7)
           recent == SelectSeq(calc.orders, LAMBDA o : o.date = 0 - 1 \/ o.date >= cutoff)
           completedLike ==
               SelectSeq(recent, LAMBDA o :
                   /\ o.status \in {"Ready", "Completed"}
                   /\ o.createdAt >= 0 /\ o.updatedAt >= 0
                   /\ o.updatedAt - o.createdAt > 0
                   /\ o.updatedAt - o.createdAt < 180 * 60000)
           cancelledCount == Len(SelectSeq(recent, LAMBDA o : o.status = "Cancelled"))
           completedCount == Len(completedLike)
           totalMs == SumDurations(completedLike)
           \* Math.max(0, BASELINE - avg) * completedCount, in milliseconds
           savingMs == IF BASELINE_PREP_MINUTES * 60000 * completedCount > totalMs
                       THEN BASELINE_PREP_MINUTES * 60000 * completedCount - totalMs
                       ELSE 0
       IN calc' = IF Len(calc.orders) = 0
                  THEN [calc EXCEPT !.evaluated = TRUE]
                  ELSE [calc EXCEPT
                          !.evaluated = TRUE,
                          !.consideredOrders = Len(recent),
                          !.completedCount = completedCount,
                          !.totalMs = totalMs,
                          !.timeSavedMinutes = Round(savingMs, 60000),
                          !.wasteAvoidedCentiKg = WASTE_PER_ORDER_CENTIKG * cancelledCount,
                          !.cancelledCount = cancelledCount]
    /\ UNCHANGED <<orders, snap, clock, writer, lastOp, users, flow, prevStatuses, lastSnap>>

\* computeNextLunchForecast.  Day 0 is a Sunday, so the weekday of day d is
\* d % 7; createdAt is in minutes UTC.
lunchSlot == [from |-> 12, to |-> 15]

\* Date.prototype.getDay and getHours: in local time
getDay(zone, d) == ((d + offset(zone, d)) \div 1440) % 7
getHours(zone, d) == ((d + offset(zone, d)) % 1440) \div 60

\* the kinds of order in the list: booked at 13:00 or at 09:00 Indian time on
\* one of the four earlier days of today's weekday, today, or six days ago
ForecastSamples ==
    << [date |-> 31 - 28, createdAt |-> (31 - 28) * 1440 + 450],
       [date |-> 31 - 21, createdAt |-> (31 - 21) * 1440 + 210],
       [date |-> 31 - 14, createdAt |-> (31 - 14) * 1440 + 210],
       [date |-> 31 - 7,  createdAt |-> (31 - 7) * 1440 + 210],
       [date |-> 31 - 7,  createdAt |-> (31 - 7) * 1440 + 450],
       [date |-> 31 - 6,  createdAt |-> (31 - 6) * 1440 + 450],
       [date |-> 31,      createdAt |-> 31 * 1440 + 450] >>

RECURSIVE Repeat(_, _)
Repeat(x, n) == IF n = 0 THEN <<>> ELSE <<x>> \o Repeat(x, n - 1)

RECURSIVE ForecastOrders(_, _)
\* the order list with mult[j] orders of kind j, for the kinds j .. 7
ForecastOrders(mult, j) ==
    IF j > Len(ForecastSamples) THEN <<>>
    ELSE Repeat(ForecastSamples[j], mult[j]) \o ForecastOrders(mult, j + 1)

\* the admin page is open at 10:00 UTC of day 31
ForecastInputs ==
    {[fn |-> "computeNextLunchForecast", zone |-> z, now |-> 31 * 1440 + 600,
      orders |-> ForecastOrders(mult, 1), evaluated |-> FALSE,
      forecast |-> 0, lower |-> 0, upper |-> 0] :
        z \in {zz \in Zones : zz.name = "Asia/Kolkata"},
        mult \in [1 .. Len(ForecastSamples) -> 0 .. MaxPerSample]}

RECURSIVE byDate(_, _, _)
\* the object byDate after orders.forEach over the list os
byDate(os, zone, now) ==
    IF os = <<>> THEN <<>>
    ELSE LET o == os[Len(os)]
             before == byDate(SubSeq(os, 1, Len(os) - 1), zone, now)
             h == getHours(zone, o.createdAt)
         IN IF getDay(zone, parseDate(o.date)) # getDay(zone, now) THEN before
            ELSE IF o.date = toISODate(now) THEN before
            ELSE LET entered == IF o.date \in DOMAIN before THEN before
                                ELSE (o.date :> 0) @@ before
                 IN IF h >= lunchSlot.from /\ h < lunchSlot.to
                    THEN [entered EXCEPT ![o.date] = @ + 1]
                    ELSE entered

RECURSIVE valuesDescending(_)
\* Object.values(byDate).sort((a, b) => b - a)
valuesDescending(f) ==
    IF DOMAIN f = {} THEN <<>>
    ELSE LET top == CHOOSE d \in DOMAIN f : \A e \in DOMAIN f : f[d] >= f[e]
         IN <<f[top]>> \o valuesDescending([e \in DOMAIN f \ {top} |-> f[e]])

RECURSIVE SumSeq(_)
SumSeq(q) == IF q = <<>> THEN 0 ELSE Head(q) + SumSeq(Tail(q))

computeNextLunchForecast ==
    /\ calc.fn = "computeNextLunchForecast"
    /\ ~calc.evaluated
    /\ LET all == valuesDescending(byDate(calc.orders, calc.zone, calc.now))
           counts == SubSeq(all, 1, IF Len(all) < 3 THEN Len(all) ELSE 3)
           forecast == Round(SumSeq(counts), Len(counts))
       IN calc' = IF Len(calc.orders) = 0 \/ Len(counts) = 0
                  THEN [calc EXCEPT !.evaluated = TRUE]
                  ELSE [calc EXCEPT !.evaluated = TRUE,
                                    !.forecast = forecast,
                                    !.lower = Round(forecast * 9, 10),
                                    !.upper = Round(forecast * 115, 100)]
    /\ UNCHANGED <<orders, snap, clock, writer, lastOp, users, flow, prevStatuses, lastSnap>>

\* One order's status under the handlers that change it, each called from an
\* enabled control of a page that shows the stored order (order.status of
\* the handler's argument is the stored status).  A new order is Prebooked
\* (handlePrebook) or Preparing (handleBook).
LifecycleInputs ==
    {[fn |-> "lifecycle", status |-> st, steps |-> 0, accepted |-> 0,
      by |-> "-", from |-> "-", to |-> "-", outcome |-> "-"] :
        st \in {"Prebooked", "Preparing"}}

lifecycleStep(by, newStatus, written) ==
    [calc EXCEPT !.steps = @ + 1, !.by = by, !.from = calc.status, !.to = newStatus,
                 !.outcome = IF written THEN "written" ELSE "denied",
                 !.status = IF written THEN newStatus ELSE @]

\* /vendor/orders updateStatus: writes status iff canTransition accepts
lifecycle_updateStatus ==
    /\ calc.fn = "lifecycle" /\ calc.steps < MaxSteps
    /\ \E newStatus \in VendorTargets :
        LET ok == canTransition(currentStatus(calc), newStatus)
        IN calc' = [lifecycleStep("VendorOrdersPage_updateStatus", newStatus, ok)
                       EXCEPT !.accepted = IF ok THEN @ + 1 ELSE @]
    /\ UNCHANGED <<orders, snap, clock, writer, lastOp, users, flow, prevStatuses, lastSnap>>

\* the employee's Cancel: writes Cancelled iff canCancelOrder accepts
lifecycle_handleCancelOrder ==
    /\ calc.fn = "lifecycle" /\ calc.steps < MaxSteps
    /\ LET ok == canCancelOrder(calc)
       IN calc' = [lifecycleStep("handleCancelOrder", "Cancelled", ok)
                      EXCEPT !.accepted = IF ok THEN @ + 1 ELSE @]
    /\ UNCHANGED <<orders, snap, clock, writer, lastOp, users, flow, prevStatuses, lastSnap>>

\* /vendor updateStatus: the buttons of an active order's card write the
\* status they name, with no guard
lifecycle_VendorPage_updateStatus ==
    /\ calc.fn = "lifecycle" /\ calc.steps < MaxSteps
    /\ isActiveOrder(calc)
    /\ \E newStatus \in VendorTargets :
        calc' = lifecycleStep("VendorPage_updateStatus", newStatus, TRUE)
    /\ UNCHANGED <<orders, snap, clock, writer, lastOp, users, flow, prevStatuses, lastSnap>>

\* A menu item as the vendor's page holds it, over the stored representations
\* of `available`; versions[i + 1] is the document after the i-th toggle,
\* page the page of the last toggle.
ToggleInputs ==
    {[fn |-> "toggleAvailability", page |-> "-", versions |-> <<item>>] :
        item \in AvailabilitySamples}

\* updateDoc(ref, { available: !item.available })
toggled(item) == updateDoc(item, [available |-> JBool(~truthy(item.available))])

\* /vendor/menu toggleAvailability(item), the page holding the stored item
toggleAvailability ==
    /\ calc.fn = "toggleAvailability" /\ Len(calc.versions) <= MaxToggles
    /\ calc' = [calc EXCEPT !.versions = Append(@, toggled(@[Len(@)])),
                            !.page = "VendorMenuPage"]
    /\ UNCHANGED <<orders, snap, clock, writer, lastOp, users, flow, prevStatuses, lastSnap>>

\* /vendor toggleAvailability(item): the same write
VendorPage_toggleAvailability ==
    /\ calc.fn = "toggleAvailability" /\ Len(calc.versions) <= MaxToggles
    /\ calc' = [calc EXCEPT !.versions = Append(@, toggled(@[Len(@)])),
                            !.page = "VendorPage"]
    /\ UNCHANGED <<orders, snap, clock, writer, lastOp, users, flow, prevStatuses, lastSnap>>

\* The computations, each from every input of its bounded set.
InitFunctions ==
    /\ orders = <<>>
    /\ snap = [s \in Sessions |-> [p \in Pages |-> <<>>]]
    /\ clock = 0
    /\ writer = <<>>
    /\ lastOp = NoOp
    /\ users = <<>>
    /\ flow = NoFlow
    /\ prevStatuses = [s \in Sessions |-> EmptyMap]
    /\ lastSnap = NoSnap
    /\ \/ calc \in NextMealWindowInputs
       \/ calc \in SimulationInputs
       \/ calc \in SlaInputs
       \/ calc \in RecInputs
       \/ calc \in QueueInputs
       \/ calc \in AiInputs
       \/ calc \in ForecastInputs
       \/ calc \in LifecycleInputs
       \/ calc \in ToggleInputs

NextFunctions ==
    \/ applyNextMealWindow
    \/ simulateMinute
    \/ simulationReturn
    \/ slaNoOrders
    \/ slaAddDay
    \/ slaCountOrder
    \/ slaReturn
    \/ renderRecommended
    \/ computeQueueEstimate
    \/ computeAiInsights
    \/ computeNextLunchForecast
    \/ lifecycle_updateStatus
    \/ lifecycle_handleCancelOrder
    \/ lifecycle_VendorPage_updateStatus
    \/ toggleAvailability
    \/ VendorPage_toggleAvailability

SpecFunctions == InitFunctions /\ [][NextFunctions]_vars

----------------------------------------------------------------------------
(* Sign-up of a new account: the registration form of the login page and    *)
(* the onAuthStateChanged callback of AuthContext, each an async function    *)
(* that reads the users collection, waits, and writes it.  Every await is    *)
(* a step boundary.                                                          *)

NewEmail == "n@corp.example"
NewUid == "uid-n"

UserDoc(uid, email, role, createdVia) ==
    [uid |-> uid, email |-> email, role |-> role, createdVia |-> createdVia, pendingUid |-> ""]

\* the users collection before the sign-up: empty, or a profile the admin
\* created for the e-mail in advance, with or without a role
InitialUsers ==
    { <<>>,
      <<UserDoc("", NewEmail, "vendor", "admin")>>,
      <<UserDoc("", NewEmail, "", "admin")>> }

SignUps ==
    {[page |-> pg, account |-> FALSE, emailVerified |-> FALSE,
      reg |-> "form", regSnap |-> 0,
      cb |-> "idle", cbSnap |-> 0, loads |-> 0,
      cv |-> "idle", cvSnap |-> 0] :
        pg \in {"src/pages/LoginPage.js", "unnamed/part_004"}}

\* query(usersRef, where(field, "==", value), limit(1)): the index of one
\* matching document, 0 for an empty snapshot; which of several matching
\* documents comes first is up to the store
FirstWhere(field, value) ==
    LET matching == {i \in 1 .. Len(users) : users[i][field] = value}
    IN IF matching = {} THEN {0} ELSE matching

\* an auth account is created or signed in: onAuthStateChanged calls back
fireAuthState(f) == [f EXCEPT !.cb = "byUid", !.cbSnap = 0, !.loads = @ + 1]

RegistrationFrame ==
    UNCHANGED <<orders, snap, clock, writer, lastOp, calc, prevStatuses, lastSnap>>

\* AuthContext: query by uid
AuthProvider_queryByUid ==
    /\ flow.page # "none" /\ flow.cb = "byUid"
    /\ \E i \in FirstWhere("uid", NewUid) :
        flow' = [flow EXCEPT !.cbSnap = i, !.cb = IF i = 0 THEN "byEmail" ELSE "found"]
    /\ UNCHANGED users
    /\ RegistrationFrame

\* AuthContext: if (snap.empty && email) query by e-mail
AuthProvider_queryByEmail ==
    /\ flow.page # "none" /\ flow.cb = "byEmail"
    /\ \E i \in FirstWhere("email", NewEmail) :
        flow' = [flow EXCEPT !.cbSnap = i, !.cb = IF i = 0 THEN "create" ELSE "found"]
    /\ UNCHANGED users
    /\ RegistrationFrame

\* AuthContext: if (snap.empty) auto-create a default employee profile
AuthProvider_autoCreate ==
    /\ flow.page # "none" /\ flow.cb = "create"
    /\ users' = addDoc(users, UserDoc(NewUid, NewEmail, "employee", "auto-bootstrap"))
    /\ flow' = [flow EXCEPT !.cb = "done"]
    /\ RegistrationFrame

\* AuthContext: the profile exists; give it a role if it has none
AuthProvider_useProfile ==
    /\ flow.page # "none" /\ flow.cb = "found"
    /\ users' = IF users[flow.cbSnap].role = ""
                THEN [users EXCEPT ![flow.cbSnap] = updateDoc(@, [role |-> "employee"])]
                ELSE users
    /\ flow' = [flow EXCEPT !.cb = "done"]
    /\ RegistrationFrame

\* the page is loaded again while the account is signed in
AuthProvider_reload ==
    /\ flow.page # "none" /\ flow.account /\ flow.cb = "done"
    /\ flow.loads < MaxLoads
    /\ flow' = fireAuthState(flow)
    /\ UNCHANGED users
    /\ RegistrationFrame

\* src/pages/LoginPage.js handleRegisterSubmit: createUserWithEmailAndPassword
handleRegisterSubmit_createUser ==
    /\ flow.page = "src/pages/LoginPage.js" /\ flow.reg = "form"
    /\ flow' = fireAuthState([flow EXCEPT !.account = TRUE, !.reg = "query"])
    /\ UNCHANGED users
    /\ RegistrationFrame

\* ... look for an existing profile with this e-mail
handleRegisterSubmit_query ==
    /\ flow.page = "src/pages/LoginPage.js" /\ flow.reg = "query"
    /\ \E i \in FirstWhere("email", NewEmail) :
        flow' = [flow EXCEPT !.regSnap = i, !.reg = "write"]
    /\ UNCHANGED users
    /\ RegistrationFrame

\* ... addDoc a new employee profile, or attach the uid to the one found
handleRegisterSubmit_write ==
    /\ flow.page = "src/pages/LoginPage.js" /\ flow.reg = "write"
    /\ users' = IF flow.regSnap = 0
                THEN addDoc(users, UserDoc(NewUid, NewEmail, "employee", "self-register"))
                ELSE [users EXCEPT ![flow.regSnap] = updateDoc(@, [uid |-> NewUid])]
    /\ flow' = [flow EXCEPT !.reg = "done"]
    /\ RegistrationFrame

\* unnamed/part_004 handleRegisterSubmit: the duplicate check before the
\* account is created (no auth account exists for the e-mail yet)
part004_handleRegisterSubmit_check ==
    /\ flow.page = "unnamed/part_004" /\ flow.reg = "form"
    /\ \E i \in FirstWhere("email", NewEmail) :
        flow' = [flow EXCEPT
                   !.reg = IF i # 0 /\ users[i].uid # "" THEN "blocked" ELSE "create"]
    /\ UNCHANGED users
    /\ RegistrationFrame

\* ... createUserWithEmailAndPassword and sendEmailVerification
part004_handleRegisterSubmit_createUser ==
    /\ flow.page = "unnamed/part_004" /\ flow.reg = "create"
    /\ flow' = fireAuthState([flow EXCEPT !.account = TRUE, !.reg = "query"])
    /\ UNCHANGED users
    /\ RegistrationFrame

\* ... snapAfter = await getDocs(q)
part004_handleRegisterSubmit_query ==
    /\ flow.page = "unnamed/part_004" /\ flow.reg = "query"
    /\ \E i \in FirstWhere("email", NewEmail) :
        flow' = [flow EXCEPT !.regSnap = i, !.reg = "write"]
    /\ UNCHANGED users
    /\ RegistrationFrame

\* ... addDoc a pending employee profile, or mark the one found with pendingUid
part004_handleRegisterSubmit_write ==
    /\ flow.page = "unnamed/part_004" /\ flow.reg = "write"
    /\ users' = IF flow.regSnap = 0
                THEN addDoc(users, UserDoc(NewUid, NewEmail, "employee", "self-register"))
                ELSE [users EXCEPT ![flow.regSnap] = updateDoc(@, [pendingUid |-> NewUid])]
    /\ flow' = [flow EXCEPT !.reg = "done"]
    /\ RegistrationFrame

\* the user opens the verification link of the e-mail
verifyEmail ==
    /\ flow.page = "unnamed/part_004" /\ flow.account /\ ~flow.emailVerified
    /\ flow' = [flow EXCEPT !.emailVerified = TRUE]
    /\ UNCHANGED users
    /\ RegistrationFrame

\* unnamed/part_004 handleCompleteVerification: reload, then query by e-mail;
\* without a verified e-mail it only shows an error
handleCompleteVerification_query ==
    /\ flow.page = "unnamed/part_004" /\ flow.account /\ flow.cv = "idle"
    /\ flow.emailVerified
    /\ \E i \in FirstWhere("email", NewEmail) :
        flow' = [flow EXCEPT !.cvSnap = i, !.cv = "write"]
    /\ UNCHANGED users
    /\ RegistrationFrame

\* ... addDoc a verified employee profile, or attach the uid to the one found
handleCompleteVerification_write ==
    /\ flow.page = "unnamed/part_004" /\ flow.cv = "write"
    /\ users' = IF flow.cvSnap = 0
                THEN addDoc(users, UserDoc(NewUid, NewEmail, "employee", "self-register"))
                ELSE [users EXCEPT ![flow.cvSnap] =
                                      updateDoc(@, [uid |-> NewUid, pendingUid |-> ""])]
    /\ flow' = [flow EXCEPT !.cv = "done"]
    /\ RegistrationFrame

InitRegistration ==
    /\ orders = <<>>
    /\ snap = [s \in Sessions |-> [p \in Pages |-> <<>>]]
    /\ clock = 0
    /\ writer = <<>>
    /\ lastOp = NoOp
    /\ calc = NoCalc
    /\ prevStatuses = [s \in Sessions |-> EmptyMap]
    /\ lastSnap = NoSnap
    /\ users \in InitialUsers
    /\ flow \in SignUps

NextRegistration ==
    \/ AuthProvider_queryByUid
    \/ AuthProvider_queryByEmail
    \/ AuthProvider_autoCreate
    \/ AuthProvider_useProfile
    \/ AuthProvider_reload
    \/ handleRegisterSubmit_createUser
    \/ handleRegisterSubmit_query
    \/ handleRegisterSubmit_write
    \/ part004_handleRegisterSubmit_check
    \/ part004_handleRegisterSubmit_createUser
    \/ part004_handleRegisterSubmit_query
    \/ part004_handleRegisterSubmit_write
    \/ verifyEmail
    \/ handleCompleteVerification_query
    \/ handleCompleteVerification_write

SpecRegistration == InitRegistration /\ [][NextRegistration]_vars

----------------------------------------------------------------------------
(* Vocabulary of the properties *)

\* The transition table of the order state machine (from, to).
TransitionTable ==
    { <<"Prebooked", "Preparing">>, <<"Prebooked", "Ready">>, <<"Prebooked", "Completed">>,
      <<"Prebooked", "Cancelled">>, <<"Preparing", "Ready">>, <<"Preparing", "Completed">>,
      <<"Ready", "Completed">> }

StatusRank(st) ==
    CASE st = "Prebooked" -> 0
      [] st = "Preparing" -> 1
      [] st = "Ready" -> 2
      [] st = "Completed" -> 3
      [] OTHER -> 4

StatusOps == {"VendorOrdersPage_updateStatus", "VendorPage_updateStatus", "handleCancelOrder"}
PaymentOps == {"handlePayOnline", "markPaidCash"}
BookingOps == {"handleBook", "handlePrebook", "EmployeePage_handlePrebook"}

\* what the two payment handlers say of an order that is already paid
AlreadyPaidMsgs == {"is already paid.", "Already marked as paid."}

\* the last handler ran on an existing order / and wrote to it
OnExisting == lastOp.op \in StatusOps \cup PaymentOps
Wrote == OnExisting /\ lastOp.outcome = "written"
Stored == orders[lastOp.id]

----------------------------------------------------------------------------
(* C1 *)

\* C1 (as claimed): an attempt to move an order the session sees as `from` to
\* `to`, with (from, to) outside the transition table, is rejected and leaves
\* the stored status as it was -- whichever of the three handlers is used.
C1_TransitionSoundness ==
    (lastOp.op \in StatusOps /\ <<lastOp.seenStatus, lastOp.to>> \notin TransitionTable)
        => (lastOp.outcome = "denied" /\ Stored.status = lastOp.prevStatus)

----------------------------------------------------------------------------
(* C2 *)

\* C2 (as claimed): every change of an order's stored status moves strictly
\* forward along Prebooked -> Preparing -> Ready -> Completed, and the stored
\* status becomes Cancelled only from a stored Prebooked.
C2_StoredStatusMonotonic ==
    (Wrote /\ Stored.status # lastOp.prevStatus)
        => IF Stored.status = "Cancelled"
           THEN lastOp.prevStatus = "Prebooked"
           ELSE /\ lastOp.prevStatus # "Cancelled"
                /\ StatusRank(lastOp.prevStatus) < StatusRank(Stored.status)

----------------------------------------------------------------------------
(* C3 *)

\* C3: the guard of /vendor/orders' updateStatus is decided by the status in
\* the session's local orders, not by the stored status: the handler writes
\* exactly when (seen status, new status) is in the transition table, and the
\* status it writes is then the stored status whatever the store held (last
\* write wins).
C3_GuardReadsSnapshot ==
    lastOp.op = "VendorOrdersPage_updateStatus"
        => /\ (lastOp.outcome = "written")
                <=> (<<lastOp.seenStatus, lastOp.to>> \in TransitionTable)
           /\ lastOp.outcome = "written" => Stored.status = lastOp.to

\* the lost update: vendor session v2 saw Prebooked, the store already held
\* the Completed that vendor session v1 wrote, and v2's write put Preparing
\* over it
C3_LostUpdateReached ==
    /\ lastOp.op = "VendorOrdersPage_updateStatus"
    /\ lastOp.outcome = "written"
    /\ lastOp.sess = "v2"
    /\ lastOp.prevBy = "v1"
    /\ lastOp.seenStatus = "Prebooked"
    /\ lastOp.prevStatus = "Completed"
    /\ Stored.status = "Preparing"

----------------------------------------------------------------------------
(* C4 *)

\* C4: handleCancelOrder on an order it sees as Prebooked writes
\* status = Cancelled, and paymentStatus = Refunded if the order it was given
\* was Paid, Pending if it was Pending; a cancel leaves no other paymentStatus.
C4_CancelRefundRule ==
    (lastOp.op = "handleCancelOrder" /\ lastOp.seenStatus = "Prebooked")
        => /\ lastOp.outcome = "written"
           /\ Stored.status = "Cancelled"
           /\ Stored.paymentStatus \in {"Refunded", "Pending"}
           /\ lastOp.seenPay = "Paid" => Stored.paymentStatus = "Refunded"
           /\ lastOp.seenPay = "Pending" => Stored.paymentStatus = "Pending"

\* a paid Prebooked order was cancelled and is now Refunded
C4_RefundReached ==
    /\ lastOp.op = "handleCancelOrder"
    /\ lastOp.outcome = "written"
    /\ lastOp.seenPay = "Paid"
    /\ Stored.status = "Cancelled"
    /\ Stored.paymentStatus = "Refunded"

----------------------------------------------------------------------------
(* C5 *)

\* C5 (as claimed): a payment handler given a Cancelled order writes nothing,
\* given an already Paid order writes nothing, tells the two refusals apart by
\* their messages, and otherwise sets paymentStatus = Paid and keeps status.
C5_PaymentRejectionRules ==
    lastOp.op \in PaymentOps
        => IF lastOp.seenPay = "Paid" \/ lastOp.seenStatus = "Cancelled"
           THEN /\ lastOp.outcome = "denied"
                /\ Stored.status = lastOp.prevStatus
                /\ Stored.paymentStatus = lastOp.prevPay
                /\ (lastOp.seenPay = "Paid") <=> (lastOp.msg \in AlreadyPaidMsgs)
           ELSE /\ lastOp.outcome = "written"
                /\ Stored.paymentStatus = "Paid"
                /\ Stored.status = lastOp.prevStatus

----------------------------------------------------------------------------
(* C6 *)

\* the category an item is booked under: item.category || "Other"
Category(id) ==
    IF ItemById(id).category = "" THEN "Other" ELSE ItemById(id).category

\* the menu items whose `available` reads as available: true, "Yes " -- and
\* not false, "no", undefined, 0
MarkedAvailable == {"b1", "l1", "l2", "s1", "d1", "o1"}

\* C6: for every hour, menu item and session with a user id, handleBook
\* creates an order iff the current window is not none, the item's category
\* is the current window and the item is available; the order it creates is
\* Preparing / Pending, and otherwise no order document exists.  At hour 13
\* the window is Lunch.
C6_ImmediateBookingAdmission ==
    (lastOp.op = "handleBook" /\ derivedUserId(lastOp.sess) # "")
        => /\ (lastOp.outcome = "written")
                <=> /\ lastOp.window # none
                    /\ Category(lastOp.item) = lastOp.window
                    /\ lastOp.item \in MarkedAvailable
           /\ lastOp.outcome = "written"
                => /\ Len(orders) = 1
                   /\ orders[1].itemId = lastOp.item
                   /\ orders[1].status = "Preparing"
                   /\ orders[1].paymentStatus = "Pending"
           /\ lastOp.outcome # "written" => orders = <<>>
           /\ lastOp.hour = 13 => lastOp.window = "Lunch"

\* at hour 13 the Lunch item whose `available` is the text "Yes " was booked
C6_LunchBookedReached ==
    /\ lastOp.op = "handleBook"
    /\ lastOp.hour = 13
    /\ lastOp.item = "l2"
    /\ lastOp.outcome = "written"
    /\ orders[1].status = "Preparing"

----------------------------------------------------------------------------
(* C7 *)

\* the cyclic successor Breakfast -> Lunch -> Snacks -> Dinner -> Breakfast
Successor(w) ==
    CASE w = "Breakfast" -> "Lunch"
      [] w = "Lunch" -> "Snacks"
      [] w = "Snacks" -> "Dinner"
      [] w = "Dinner" -> "Breakfast"
      [] OTHER -> none

\* C7 (as claimed): for every hour, menu item and session with a user id, the
\* employee page's handlePrebook -- in either revision of the page -- creates
\* an order iff the current window is not none, the item's category is the
\* successor of the current window and the item is available; the order is
\* Prebooked / Pending; at hour 2 every booking and pre-booking is denied.
C7_PrebookAdmission ==
    /\ (lastOp.op \in {"handlePrebook", "EmployeePage_handlePrebook"}
            /\ derivedUserId(lastOp.sess) # "")
        => /\ (lastOp.outcome = "written")
                <=> /\ lastOp.window # none
                    /\ Category(lastOp.item) = Successor(lastOp.window)
                    /\ lastOp.item \in MarkedAvailable
           /\ lastOp.outcome = "written"
                => /\ Len(orders) = 1
                   /\ orders[1].status = "Prebooked"
                   /\ orders[1].paymentStatus = "Pending"
    /\ (lastOp.op \in BookingOps /\ lastOp.hour = 2)
        => (lastOp.outcome = "denied" /\ orders = <<>>)

----------------------------------------------------------------------------
(* C8 *)

\* a write that sets the order's status to `lastOp.to`
WroteStatus == lastOp.op \in StatusOps /\ lastOp.outcome = "written"

\* C8 (as claimed): status becomes Cancelled only by the employee session
\* whose user id is the order's userId and only while the stored order is
\* Prebooked (a cancel over a stored Cancelled changes no status);
\* Preparing / Ready / Completed are written only by vendor sessions; an
\* admin session writes no order.
C8_OwnershipOfStoredOrder ==
    /\ (WroteStatus /\ lastOp.to = "Cancelled")
        => /\ Profile(lastOp.sess).role = "employee"
           /\ derivedUserId(lastOp.sess) = Stored.userId
           /\ lastOp.prevStatus # "Cancelled" => lastOp.prevStatus = "Prebooked"
    /\ (WroteStatus /\ lastOp.to \in VendorTargets)
        => Profile(lastOp.sess).role = "vendor"
    /\ lastOp.outcome = "written" => Profile(lastOp.sess).role # "admin"

\* C8 (amended): status becomes Cancelled only by the employee session whose
\* user id is the order's userId and only while that session's local copy of
\* the order shows Prebooked; Preparing / Ready / Completed are written only
\* by vendor sessions; an admin session writes no order.
C8_OwnershipOnLocalCopy ==
    /\ (WroteStatus /\ lastOp.to = "Cancelled")
        => /\ Profile(lastOp.sess).role = "employee"
           /\ derivedUserId(lastOp.sess) = Stored.userId
           /\ lastOp.seenStatus = "Prebooked"
    /\ (WroteStatus /\ lastOp.to \in VendorTargets)
        => Profile(lastOp.sess).role = "vendor"
    /\ lastOp.outcome = "written" => Profile(lastOp.sess).role # "admin"

\* the owner (identified by e-mail) cancelled an order its page still showed
\* as Prebooked after the vendor had made it Ready
C8_StaleOwnerCancelReached ==
    /\ lastOp.op = "handleCancelOrder"
    /\ lastOp.outcome = "written"
    /\ lastOp.sess = "e2"
    /\ Stored.userId = "e2@corp.example"
    /\ lastOp.seenStatus = "Prebooked"
    /\ lastOp.prevStatus = "Ready"
    /\ lastOp.prevBy = "v1"
    /\ Stored.status = "Cancelled"

----------------------------------------------------------------------------
(* C9 *)

\* C9: no step changes the name, price, date, userId, itemId or createdAt of
\* an order that exists; so after any sequence of vendor status updates,
\* cancels and payments they are the values the order was created with.
C9_ImmutableAfterCreation ==
    [][\A i \in 1 .. Len(orders) :
            /\ orders'[i].name = orders[i].name
            /\ orders'[i].price = orders[i].price
            /\ orders'[i].date = orders[i].date
            /\ orders'[i].userId = orders[i].userId
            /\ orders'[i].itemId = orders[i].itemId
            /\ orders'[i].createdAt = orders[i].createdAt]_vars

\* an order was created, paid and then marked by the vendor: it was written
\* after its creation and still carries the item, price, day and owner
C9_RewrittenOrderReached ==
    /\ lastOp.op = "VendorPage_updateStatus"
    /\ lastOp.outcome = "written"
    /\ lastOp.prevPay = "Paid"
    /\ Stored.updatedAt > Stored.createdAt + 1
    /\ Stored.name = "Thali"
    /\ Stored.price = 80
    /\ Stored.itemId = "l1"
    /\ Stored.date = MountDate
    /\ Stored.userId = "EMP001"

----------------------------------------------------------------------------
(* C10 *)

\* the boundary table behind the window the last invocation computed
TestOf(op, w, hour) ==
    CASE op = "EmployeePage_handlePrebook" -> EmployeePage_windowTest(w, hour)
      [] op = "AdminPage_mealWindowBadge" -> AdminPage_windowTest(w, hour)
      [] OTHER -> windowTest(w, hour)

WindowOps == BookingOps \cup {"AdminPage_mealWindowBadge"}

\* C10: for every hour 0-23 each meal-window function returns one of
\* Breakfast, Lunch, Snacks, Dinner, none; at most one named window's hour
\* range contains the hour; the result is that window, or none when no range
\* contains the hour -- so it is decided by the hour alone.
C10_WindowTotality ==
    lastOp.op \in WindowOps
        => LET hits == {w \in Windows : TestOf(lastOp.op, w, lastOp.hour)} IN
           /\ lastOp.hour \in Hours
           /\ lastOp.window \in Windows \cup {none}
           /\ Cardinality(hits) <= 1
           /\ hits = {} <=> lastOp.window = none
           /\ \A w \in hits : lastOp.window = w

\* hour 11, where the boundary tables differ: Breakfast in the page with
\* handleBook
C10_BoundaryHourReached ==
    /\ lastOp.op = "handleBook"
    /\ lastOp.hour = 11
    /\ lastOp.window = "Breakfast"

----------------------------------------------------------------------------
(* C11 *)

\* C11: getNextMealWindow maps Breakfast -> Lunch -> Snacks -> Dinner ->
\* Breakfast; applied n >= 1 times to a named window it is back at that
\* window exactly when n is a multiple of 4 (so after 4 applications and
\* after no fewer); applied to none it stays none.
C11_SuccessorCycle ==
    (calc.fn = "getNextMealWindow" /\ calc.n >= 1)
        => /\ calc.n = 1 => calc.out = Successor(calc.in)
           /\ calc.in \in Windows
                => /\ calc.out \in Windows
                   /\ (calc.out = calc.in) <=> (calc.n % 4 = 0)
           /\ calc.in = none => calc.out = none

\* four applications from Dinner are back at Dinner
C11_FullCycleReached ==
    /\ calc.fn = "getNextMealWindow"
    /\ calc.in = "Dinner"
    /\ calc.n = 4
    /\ calc.out = "Dinner"

----------------------------------------------------------------------------
(* C12 *)

\* the samples whose `available` is one of "Yes", "yes ", "Y", true, "available"
ReadAsAvailable == {"aYes", "aYesSp", "aY", "aTrue", "aAvail"}

\* the samples whose `available` is one of "", "no", false, undefined, 0, or
\* another text ("Later")
ReadAsUnavailable == {"aEmpty", "aNo", "aFalse", "aUndef", "aZero", "aLater"}

\* the availability check is reached: the handler denied for no earlier cause
AvailabilityDecides ==
    lastOp.outcome = "written" \/ lastOp.msg = "is not available right now."

\* C12: isItemAvailable is true of "Yes", "yes ", "Y", true, "available" and
\* false of "", "no", false, undefined, 0 and any other text; a booking or
\* pre-booking of an item it is false of is denied and creates no order, and
\* where the availability check decides, the order is created exactly for
\* the items it is true of.
C12_AvailabilityNormalization ==
    (lastOp.op \in BookingOps /\ lastOp.item \in ReadAsAvailable \cup ReadAsUnavailable)
        => /\ isItemAvailable(BookingItemById(lastOp.item))
                <=> lastOp.item \in ReadAsAvailable
           /\ lastOp.item \in ReadAsUnavailable
                => (lastOp.outcome = "denied" /\ orders = <<>>)
           /\ AvailabilityDecides
                => ((lastOp.outcome = "written") <=> (lastOp.item \in ReadAsAvailable))

\* the item whose `available` is the text "yes " was booked at Lunch
C12_TextBookedReached ==
    /\ lastOp.op = "handleBook"
    /\ lastOp.item = "aYesSp"
    /\ lastOp.outcome = "written"
    /\ orders[1].itemId = "aYesSp"

----------------------------------------------------------------------------
(* C13 *)

\* what the user of the page sees: the notification banner, an alert box
UserVisible == {"notif", "alert"}

\* C13 (as claimed): a status change refused because (seen status, new
\* status) is not in the transition table -- a cancel of an order that is not
\* Prebooked, a vendor update canTransition blocks -- writes nothing, throws
\* nothing, and tells the user why.
C13_DenialSurfaced ==
    (lastOp.op \in StatusOps /\ lastOp.outcome = "denied")
        => /\ <<lastOp.seenStatus, lastOp.to>> \notin TransitionTable
           /\ Stored.status = lastOp.prevStatus
           /\ Stored.paymentStatus = lastOp.prevPay
           /\ lastOp.msg # "-"
           /\ lastOp.channel \in UserVisible

----------------------------------------------------------------------------
(* C14 *)

\* the store rejected the handler's write
StoreRejected == lastOp.outcome \in {"failed", "thrown"}

\* C14 (as claimed): whichever handler's write the store rejects -- book,
\* pre-book, cancel, pay, vendor status update, vendor mark-paid -- the
\* handler catches the rejection and reports it with one user-visible
\* message, and the order is as it was.
C14_WriteFailureCaught ==
    StoreRejected
        => /\ lastOp.outcome = "failed"
           /\ lastOp.msg # "-"
           /\ lastOp.channel \in UserVisible
           /\ lastOp.id # 0
                => /\ Stored.status = lastOp.prevStatus
                   /\ Stored.paymentStatus = lastOp.prevPay

----------------------------------------------------------------------------
(* C15 *)

DenialCauses == {"no identity", "outside any window", "wrong window", "unavailable"}

\* the window an item must belong to: the current one to be booked, its
\* successor to be pre-booked
WindowAsked == IF lastOp.op = "handleBook" THEN lastOp.window ELSE Successor(lastOp.window)

BookingCategory ==
    IF BookingItemById(lastOp.item).category = "" THEN "Other"
    ELSE BookingItemById(lastOp.item).category

\* the first cause, in the order no identity, outside any window, wrong
\* window, unavailable, that holds of the last booking attempt
FirstCause ==
    IF lastOp.sess = "u0" THEN "no identity"
    ELSE IF lastOp.window = none THEN "outside any window"
    ELSE IF BookingCategory # WindowAsked THEN "wrong window"
    ELSE IF lastOp.item \notin MarkedAvailable \cup ReadAsAvailable THEN "unavailable"
    ELSE "none"

\* the message of each cause
DenialMsg(op, cause) ==
    CASE cause = "no identity" -> "No Employee ID linked to this account."
      [] cause = "outside any window" ->
            IF op = "handleBook" THEN "Booking is only available during meal windows."
            ELSE "Pre-booking is only available during meal windows."
      [] cause = "wrong window" ->
            IF op = "handleBook" THEN "can be booked only during its window"
            ELSE "can be pre-booked only for its window"
      [] OTHER -> "is not available right now."

\* C15: handleBook and handlePrebook deny exactly when a cause holds, report
\* the message of the first cause in the order no identity, outside any
\* window, wrong window, unavailable, the messages of two causes differ, and
\* a denial creates no order.
C15_DistinguishableDenials ==
    lastOp.op \in {"handleBook", "handlePrebook"}
        => /\ (lastOp.outcome = "denied") <=> (FirstCause # "none")
           /\ lastOp.outcome = "denied"
                => /\ lastOp.msg = DenialMsg(lastOp.op, FirstCause)
                   /\ \A c \in DenialCauses \ {FirstCause} :
                            lastOp.msg # DenialMsg(lastOp.op, c)
                   /\ lastOp.channel = "notif"
                   /\ orders = <<>>

\* every cause at once -- no identity, hour 2, a Dinner item marked
\* unavailable -- and the missing identity is what is reported
C15_AllCausesReached ==
    /\ lastOp.op = "handlePrebook"
    /\ lastOp.sess = "u0"
    /\ lastOp.hour = 2
    /\ lastOp.item = "d0"
    /\ lastOp.outcome = "denied"
    /\ lastOp.msg = "No Employee ID linked to this account."

----------------------------------------------------------------------------
(* C16 *)

\* C16 (as claimed): for every parameter set and every sequence of noise
\* draws the simulated queue is >= 0 after every minute, and the returned
\* maxQueue is >= the returned avgQueue.
C16_SimulatorBounds ==
    calc.fn = "runQueueSimulation"
        => /\ calc.queueP >= 0
           /\ calc.returned => 10 * calc.maxQueue >= calc.avgQueue10

----------------------------------------------------------------------------
(* C17 *)

\* the orders of the list that the claim counts for a day
SlaQualifying(day) ==
    {k \in 1 .. Len(calc.orders) :
        LET o == calc.orders[k]
        IN /\ o.date = day
           /\ o.status \in {"Ready", "Completed"}
           /\ o.createdAt >= 0 /\ o.updatedAt >= 0
           /\ o.updatedAt - o.createdAt > 0
           /\ o.updatedAt - o.createdAt < 240 * 60000}

SlaOnTime(day) ==
    {k \in SlaQualifying(day) :
        calc.orders[k].updatedAt - calc.orders[k].createdAt <= 15 * 60000}

TrailingDays == [j \in 1 .. 7 |-> calc.today - 7 + j]

\* C17 (as claimed): for a non-empty order list computeSlaStats reports the
\* trailing 7 calendar days, the count of each is the number of orders with
\* that literal date, status Ready or Completed and a duration strictly
\* between 0 and 240 minutes, exactly those of at most 15 minutes are
\* on time, and totalCompleted is the sum of the per-day counts and the
\* number of all such orders of the 7 days.
C17_SlaBucketing ==
    (calc.fn = "computeSlaStats" /\ calc.step = "returned" /\ calc.orders # <<>>)
        => /\ calc.dayList = TrailingDays
           /\ \A j \in 1 .. Len(calc.perDay) :
                /\ calc.perDay[j].date = calc.dayList[j]
                /\ calc.perDay[j].completed
                        = Cardinality(SlaQualifying(calc.perDay[j].date))
                /\ calc.perDayMap[calc.dayList[j]].onTimeCount
                        = Cardinality(SlaOnTime(calc.perDay[j].date))
           /\ calc.totalCompleted = SumOver(calc.dayList, calc.perDayMap, "completed")
           /\ calc.totalCompleted
                = Cardinality(UNION {SlaQualifying(TrailingDays[j]) : j \in 1 .. 7})

----------------------------------------------------------------------------
(* C18 *)

\* the ids of the account of the last call, in the order of preference
IdsInOrder ==
    <<Profile(lastOp.sess).employeeId, Profile(lastOp.sess).email, Profile(lastOp.sess).uid>>

NonEmptyIds == {j \in 1 .. 3 : IdsInOrder[j] # ""}

\* C18: an order created by handleBook or handlePrebook carries as userId the
\* first non-empty of profile.employeeId, account e-mail and account uid, and
\* the employee's own-orders query selects exactly the orders with that
\* userId; when all three are empty the handler creates no order and reports
\* that no Employee ID is linked.
C18_UserIdResolution ==
    lastOp.op \in BookingOps
        => /\ NonEmptyIds = {}
                => /\ lastOp.outcome = "denied"
                   /\ lastOp.msg = "No Employee ID linked to this account."
                   /\ orders = <<>>
           /\ lastOp.outcome = "written"
                => /\ NonEmptyIds # {}
                   /\ LET first == CHOOSE j \in NonEmptyIds : \A m \in NonEmptyIds : j <= m
                          own == EmployeePage_orders(lastOp.sess)
                      IN /\ orders[lastOp.id].userId = IdsInOrder[first]
                         /\ {own[k].id : k \in 1 .. Len(own)}
                                = {i \in 1 .. Len(orders) : orders[i].userId = IdsInOrder[first]}

\* C18 witness: an account with neither employee id nor e-mail has booked, and
\* the order carries its uid.
C18_UidFallbackReached ==
    /\ lastOp.op = "handleBook"
    /\ lastOp.sess = "e3"
    /\ lastOp.outcome = "written"
    /\ orders[lastOp.id].userId = "uid-e3"

----------------------------------------------------------------------------
(* C19 *)

\* C19 (as claimed): every successful status transition and every successful
\* payment change writes updatedAt with the changed field, so the stored
\* updatedAt of the order is the time of that write.
C19_UpdatedAtRefreshed ==
    Wrote => Stored.updatedAt = clock

----------------------------------------------------------------------------
(* C20 *)

\* the positions of the menu whose item is available and of the effective
\* category ("All" standing for every category)
RecCandidates ==
    {i \in 1 .. Len(calc.menuItems) :
        /\ isItemAvailable(calc.menuItems[i])
        /\ \/ calc.effectiveFilter = "All"
           \/ calc.menuItems[i].category = calc.effectiveFilter}

PastOrders(i) ==
    Cardinality({k \in 1 .. Len(calc.orders) : calc.orders[k].name = calc.menuItems[i].name})

\* i ranks strictly before j: cheaper when there are no orders, else of the
\* higher score PastOrders + 1 / (1 + price)
RanksBefore(i, j) ==
    LET pi == calc.menuItems[i].price
        pj == calc.menuItems[j].price
    IN IF calc.orders = <<>> THEN pi < pj
       ELSE (PastOrders(i) * (1 + pi) + 1) * (1 + pj)
                > (PastOrders(j) * (1 + pj) + 1) * (1 + pi)

\* how many candidates come before candidate i, ties in menu order
RecRank(i) ==
    Cardinality({j \in RecCandidates :
                    RanksBefore(j, i) \/ (~RanksBefore(i, j) /\ j < i)})

RecExpected ==
    [k \in 1 .. (IF Cardinality(RecCandidates) < 2 THEN Cardinality(RecCandidates) ELSE 2) |->
        calc.menuItems[CHOOSE i \in RecCandidates : RecRank(i) = k - 1]]

\* C20: recommendedItems returns at most 2 items, the 2 best candidates
\* (available, of the effective category): cheapest first when the user has
\* no orders, else highest score first, ties in menu order; a repeated
\* evaluation returns the same.
C20_RecommendationRanking ==
    (calc.fn = "recommendedItems" /\ calc.n >= 1)
        => /\ Len(calc.out) <= 2
           /\ calc.out = RecExpected
           /\ calc.out = calc.first

\* C20 witness: with three candidates and an order history, evaluated twice,
\* a dearer item that was ordered before ranks ahead of a cheaper one.
C20_FavouriteFirstReached ==
    /\ calc.fn = "recommendedItems"
    /\ calc.n = 2
    /\ calc.orders # <<>>
    /\ Cardinality(RecCandidates) = 3
    /\ Len(calc.out) = 2
    /\ calc.out[1].price > calc.out[2].price

----------------------------------------------------------------------------
(* C21 *)

\* the orders of the list that are neither Completed nor Cancelled
OpenOrders ==
    {k \in 1 .. Len(calc.orders) : calc.orders[k].status \notin {"Completed", "Cancelled"}}

\* ceil(n * 8 / 2)
CeilOfLoad(n) == (n * 8 + 1) \div 2

----------------------------------------------------------------------------
(* C22 *)

\* the orders dated within the 7 days that end today
AiInWindow ==
    {k \in 1 .. Len(calc.orders) :
        /\ calc.orders[k].date >= toISODate(calc.now) - 6
        /\ calc.orders[k].date <= toISODate(calc.now)}

AiSample ==
    {k \in AiInWindow :
        /\ calc.orders[k].status \in {"Ready", "Completed"}
        /\ calc.orders[k].updatedAt - calc.orders[k].createdAt > 0
        /\ calc.orders[k].updatedAt - calc.orders[k].createdAt < 180 * 60000}

RECURSIVE AiSampleMs(_)
AiSampleMs(ks) ==
    IF ks = {} THEN 0
    ELSE LET k == CHOOSE x \in ks : TRUE
         IN (calc.orders[k].updatedAt - calc.orders[k].createdAt) + AiSampleMs(ks \ {k})

\* C22 (as claimed): computeAiInsights considers exactly the orders dated in
\* the trailing 7 days (none older, none without a date); the sample is the
\* Ready/Completed orders among them with a duration strictly between 0 and
\* 180 minutes; timeSaved = max(0, 12 - mean duration) * sample size, shown
\* as a whole number of minutes; and
\* wasteAvoided = 0.25 kg * the number of Cancelled orders in the window.
C22_InsightWindow ==
    (calc.fn = "computeAiInsights" /\ calc.evaluated)
        => /\ calc.consideredOrders = Cardinality(AiInWindow)
           /\ calc.completedCount = Cardinality(AiSample)
           /\ LET due == 12 * 60000 * Cardinality(AiSample) - AiSampleMs(AiSample)
                  saved == IF due > 0 THEN due ELSE 0
              IN /\ calc.timeSavedMinutes * 60000 - saved <= 30000
                 /\ saved - calc.timeSavedMinutes * 60000 < 30000
           /\ calc.wasteAvoidedCentiKg
                = 25 * Cardinality({k \in AiInWindow : calc.orders[k].status = "Cancelled"})

----------------------------------------------------------------------------
(* C23 *)

\* the dates before today that fall on today's weekday and have an order
PriorSameWeekday ==
    {calc.orders[k].date : k \in {j \in 1 .. Len(calc.orders) :
        /\ calc.orders[j].date < toISODate(calc.now)
        /\ calc.orders[j].date % 7 = toISODate(calc.now) % 7}}

\* the up to 3 most recent of them
MostRecentThree ==
    {d \in PriorSameWeekday : Cardinality({e \in PriorSameWeekday : e > d}) < 3}

\* the orders of a date that were created in the lunch slot, 12:00 to 15:00
LunchCount(d) ==
    Cardinality({k \in 1 .. Len(calc.orders) :
        /\ calc.orders[k].date = d
        /\ getHours(calc.zone, calc.orders[k].createdAt) >= 12
        /\ getHours(calc.zone, calc.orders[k].createdAt) < 15})

RECURSIVE LunchTotal(_)
LunchTotal(ds) ==
    IF ds = {} THEN 0
    ELSE LET d == CHOOSE x \in ds : TRUE IN LunchCount(d) + LunchTotal(ds \ {d})

\* C23 (as claimed): the forecast is the rounded average of the lunch-slot
\* order counts of the up to 3 most recent earlier dates of today's weekday,
\* lower = round(0.9 * forecast), upper = round(1.15 * forecast),
\* lower <= forecast <= upper, and 0/0/0 when there is no such date.
C23_ForecastFromRecentWeeks ==
    (calc.fn = "computeNextLunchForecast" /\ calc.evaluated)
        => /\ calc.forecast =
                IF MostRecentThree = {} THEN 0
                ELSE (2 * LunchTotal(MostRecentThree) + Cardinality(MostRecentThree))
                        \div (2 * Cardinality(MostRecentThree))
           /\ calc.lower = (18 * calc.forecast + 10) \div 20
           /\ calc.upper = (230 * calc.forecast + 100) \div 200
           /\ calc.lower <= calc.forecast /\ calc.forecast <= calc.upper

----------------------------------------------------------------------------
(* C24 *)

\* C24 (as claimed, for a write that follows another session's write): once
\* the store holds paymentStatus = Paid for an order, a later write leaves it
\* Paid or Refunded, never Pending, and a cancel of a paid order stores
\* Refunded.
C24_PaymentNeverLost ==
    (Wrote /\ lastOp.prevPay = "Paid" /\ lastOp.prevBy # lastOp.sess)
        => /\ Stored.paymentStatus \in {"Paid", "Refunded"}
           /\ lastOp.op = "handleCancelOrder" => Stored.paymentStatus = "Refunded"

----------------------------------------------------------------------------
(* C25 *)

\* C25 (as claimed): whatever the interleaving of the auth-state callback
\* with the registration flow, the users collection never holds two
\* documents with the same uid or two documents with the same e-mail.
C25_OneProfilePerIdentity ==
    \A i, j \in 1 .. Len(users) :
        i < j => /\ ~(users[i].uid # "" /\ users[i].uid = users[j].uid)
                 /\ ~(users[i].email # "" /\ users[i].email = users[j].email)

----------------------------------------------------------------------------
(* C26 *)

GuardedOps == {"VendorOrdersPage_updateStatus", "handleCancelOrder"}
TerminalStatuses == {"Completed", "Cancelled"}

\* a change canTransition or canCancelOrder accepted starts at a non-terminal
\* status and ends at a higher rank
GuardsIncreaseRank ==
    (calc.by \in GuardedOps /\ calc.outcome = "written")
        => /\ calc.from \notin TerminalStatuses
           /\ StatusRank(calc.from) < StatusRank(calc.to)

\* nothing changes a Completed or Cancelled order
TerminalIsFinal ==
    calc.from \in TerminalStatuses => calc.outcome = "denied"

\* the vendor's direct move to Completed is accepted from every status that
\* is not terminal
NoDeadEnd ==
    calc.status \notin TerminalStatuses => canTransition(calc.status, "Completed")

\* C26 (as claimed): with every handler acting on the stored status, a status
\* change that canTransition or canCancelOrder accepts strictly increases the
\* order's rank, no order accepts more than 3 status changes and none once it
\* is Completed or Cancelled, and no non-terminal status is a dead end.
C26_BoundedLifecycle ==
    calc.fn = "lifecycle"
        => /\ GuardsIncreaseRank
           /\ calc.accepted <= 3
           /\ TerminalIsFinal
           /\ NoDeadEnd

----------------------------------------------------------------------------
(* C27 *)

\* C27: when every handler runs from an enabled control of a page showing
\* the latest snapshot, every stored order satisfies: paymentStatus Refunded
\* implies status Cancelled, and status Cancelled implies paymentStatus
\* Pending or Refunded (never Paid).
C27_PaymentStatusConsistency ==
    \A k \in 1 .. Len(orders) :
        /\ orders[k].paymentStatus = "Refunded" => orders[k].status = "Cancelled"
        /\ orders[k].status = "Cancelled" => orders[k].paymentStatus \in {"Pending", "Refunded"}

\* a paid order was cancelled and is stored as Cancelled / Refunded
C27_PaidOrderCancelledReached ==
    /\ lastOp.op = "handleCancelOrder" /\ lastOp.outcome = "written"
    /\ lastOp.prevPay = "Paid"
    /\ Stored.status = "Cancelled" /\ Stored.paymentStatus = "Refunded"

----------------------------------------------------------------------------
(* C28 *)

\* the duration computeSlaStats and computeAiInsights take for an order
MeasuredDuration(order) == order.updatedAt - order.createdAt

\* the last write changed the stored status
StatusTransition == Wrote /\ Stored.status # lastOp.prevStatus

\* C28 (as claimed): for an order that is Ready or Completed, updatedAt -
\* createdAt is the time from the order's creation to its last status
\* transition: a write that makes the transition sets it to that, and a
\* write that is no transition (a payment) leaves it as it was.
C28_PreparationTimeMeasured ==
    (Wrote /\ Stored.status \in {"Ready", "Completed"})
        => MeasuredDuration(Stored) =
               (IF StatusTransition THEN clock ELSE lastOp.prevUpdatedAt) - Stored.createdAt

----------------------------------------------------------------------------
(* C29 *)

\* the changes of the last employee snapshot that are to be announced
\* (lastSnap.modified holds its changes of type "modified"): the orders whose status is not the one recorded after the previous
\* snapshot, own cancels (Prebooked -> Cancelled) left out
ToAnnounce ==
    {c \in lastSnap.modified :
        /\ c.prev # c.status
        /\ ~(c.prev = "Prebooked" /\ c.status = "Cancelled")}

\* C29: the employee listener raises one "status changed to <status>"
\* notification for each modified order whose status is not the one recorded
\* after the previous snapshot, none for Prebooked -> Cancelled and none for
\* an added order; afterwards the recorded map is the id -> status map of the
\* snapshot.
C29_StatusChangeNotification ==
    /\ \A s \in Sessions : prevStatuses[s] = newMap(snap[s]["EmployeePage"])
    /\ {lastSnap.raised[i] : i \in 1 .. Len(lastSnap.raised)}
           = {[id |-> c.id, status |-> c.status] : c \in ToAnnounce}
    /\ Len(lastSnap.raised) = Cardinality(ToAnnounce)

\* a snapshot that showed a vendor's status change and raised its notification
C29_NotificationReached ==
    /\ Len(lastSnap.raised) > 0
    /\ lastSnap.raised[1].status \in {"Preparing", "Ready", "Completed"}

\* a snapshot that showed the employee's cancel of a Prebooked order and
\* raised nothing
C29_OwnCancelSilentReached ==
    /\ \E c \in lastSnap.modified : c.prev = "Prebooked" /\ c.status = "Cancelled"
    /\ lastSnap.raised = <<>>

----------------------------------------------------------------------------
(* C30 *)

\* C30 (as claimed): whatever the stored representation of `available`, the
\* employee-side isItemAvailable after a toggle is the negation of its value
\* before the toggle, and two consecutive toggles restore it.
C30_ToggleInvertsAvailability ==
    calc.fn = "toggleAvailability"
        => /\ \A i \in 2 .. Len(calc.versions) :
                 isItemAvailable(calc.versions[i]) = ~isItemAvailable(calc.versions[i - 1])
           /\ Len(calc.versions) >= 3
                 => isItemAvailable(calc.versions[3]) = isItemAvailable(calc.versions[1])

====
